---- MODULE Spec2Model ----
(***************************************************************************)
(* MoneyMoneyAutomator: the suggestion cache (cache_manager.py) and the    *)
(* workflow coordinator (categorizer.py) with its interactive review loop  *)
(* (category_selector.py).  One run() of a TransactionCategorizer is a     *)
(* sequential program that blocks on the suggestion source and on user     *)
(* input; every blocking point is a control location of pc.  The cache     *)
(* manager on its own (any caller, any file content, a path that can stop  *)
(* being writable) is SpecCache; the review dialogue without fzf, with its *)
(* line-based category search, is SpecDialog.                              *)
(***************************************************************************)
EXTENDS Integers, Sequences, FiniteSets, TLC

\* ---------------------------------------------------------------- bounds
NumTx == 3            \* transactions the platform can return
NumCat == 2           \* leaf categories loaded from the platform
MaxFileEntries == 2   \* entries of the cache file found at construction
MaxRuns == 2          \* consecutive runs on the same cache file (SpecPreRun)
NumIds == 2           \* transaction ids a caller passes to the cache (SpecCache)
NUM_SUGGESTIONS == 2  \* Config.NUM_SUGGESTIONS, read from the environment (SpecParse)

Tx == 1 .. NumTx
Categories == 1 .. NumCat

\* transaction.get('id'): the last transaction carries a falsy id (0)
TxId(t) == IF t = NumTx THEN 0 ELSE t

\* a test `is not None` in place of truthiness: the id 0 passes
TruthyNotNone(id) == TRUE

\* `if not transaction_id`
Truthy(id) == id # 0

\* ---------------------------------------------------------------- values
\* Optional values: None is <<>>, a value v is <<v>>.
None == <<>>
Some(v) == <<v>>

\* A suggestion is represented by its category (1..NumCat); 0 is a
\* suggestion object without a 'category' key, which only a cache file
\* written by something else can contain.

\* what categorize_transaction can return: validated, duplicate-free lists
\* (here the lists 1..n of the n best categories)
LlmLists == {[i \in 1 .. n |-> i] : n \in 0 .. NumCat}

\* what a cache file can hold for one id: an empty list, a list with an
\* object that lacks 'category', a list with one well-formed suggestion
FileLists == {<<>>, <<0>>, <<1>>}

\* display_suggestions raises KeyError on suggestion['category']
Malformed(list) == \E i \in 1 .. Len(list) : list[i] = 0

\* `not suggestions` for Optional[List]
Falsy(sugg) == sugg = None \/ sugg[1] = <<>>

\* ------------------------------------------------------- cache_manager.py
\* transaction_key = str(transaction_id)
Key(id) == ToString(id)

Keys == {Key(i) : i \in 0 .. NumTx}

\* a bug: `transaction_id in self._cache` (int id against str keys)
has_suggestions_int_key(c, id) == FALSE


has_suggestions(c, id) == Key(id) \in DOMAIN c

get_suggestions(c, id) ==
    IF Key(id) \in DOMAIN c THEN Some(c[Key(id)]) ELSE None

store_suggestions(c, id, s) ==
    [k \in DOMAIN c \cup {Key(id)} |-> IF k = Key(id) THEN s ELSE c[k]]

\* a bug: `if transaction_id in self._cache` (int id against str keys), so
\* nothing is ever deleted
remove_suggestions_int_key(c, id) == c


remove_suggestions(c, id) ==
    [k \in DOMAIN c \ {Key(id)} |-> c[k]]

get_cached_transaction_ids(c) == DOMAIN c

\* self._cache = {}
EmptyCache == [k \in {} |-> <<>>]

\* clear_cache: the new mapping
clear_cache(c) == EmptyCache

\* _load_cache: the mappings a cache file can hold at construction
LoadableCaches ==
    UNION {[K -> FileLists] :
             K \in {S \in SUBSET Keys : Cardinality(S) <= MaxFileEntries}}

\* json.dump then json.load of one list: an item -n is a Python value that
\* is serializable without being a JSON value (a tuple, a dict keyed by an
\* int); it is written, and read back, as the JSON value n
JsonList(list) ==
    [i \in DOMAIN list |-> IF list[i] < 0 THEN 0 - list[i] ELSE list[i]]

\* json.dump(self._cache, f): the object the file holds afterwards
json_dump(c) == [k \in DOMAIN c |-> JsonList(c[k])]

\* The cache file.  kind is what open() and json.load() make of it:
\*   "missing"      os.path.exists is false
\*   "unreadable"   open() raises IOError (a directory, no permission)
\*   "garbage"      json.load raises JSONDecodeError (not JSON, truncated)
\*   "undecodable"  bytes that are not text: read raises UnicodeDecodeError
\*   "scalar"       valid JSON null or number: len(self._cache) raises
\*   "array"        valid JSON array or string: loads, but is no dict
\*   "object"       a JSON object, held in data
File(kind, data) == [kind |-> kind, data |-> data]

FileKinds ==
    {"missing", "unreadable", "garbage", "undecodable", "scalar", "array"}

\* a bug: the file is never read
_load_cache_ignoring(f) ==
    [mem |-> EmptyCache, type |-> "dict", raised |-> FALSE]


\* _load_cache: the in-memory mapping, the type of self._cache and whether
\* the constructor raised ("none": no instance was constructed)
_load_cache(f) ==
    CASE f.kind = "object" ->
            [mem |-> f.data, type |-> "dict", raised |-> FALSE]
      [] f.kind \in {"missing", "unreadable", "garbage"} ->
            [mem |-> EmptyCache, type |-> "dict", raised |-> FALSE]
      [] f.kind = "array" ->
            [mem |-> EmptyCache, type |-> "array", raised |-> FALSE]
      [] OTHER ->
            [mem |-> EmptyCache, type |-> "none", raised |-> TRUE]

\* a bug: the mapping is written back later, not on every mutation
_save_cache_deferred(c, f, w) == f


\* _save_cache: the file afterwards; with a path that cannot be written
\* open() raises IOError and the file is left as it was
_save_cache(c, f, w) == IF w THEN File("object", json_dump(c)) ELSE f

\* a bug: no try/except in _save_cache
SaveRaisesUncaught(w) == ~w


\* whether _save_cache raises to its caller: `except IOError` logs only
SaveRaises(w) == FALSE

\* ------------------------------------------------------------ state
VARIABLES
    mode,          \* "prerun" | "apply" | "combined" | "legacy"
    test_mode,     \* self.test_mode
    dry_run,       \* self.dry_run
    cache,         \* CacheManager._cache
    category,      \* platform: category applied to each transaction (0 none)
    stats,         \* self.stats
    pc,            \* control location of run()
    transactions,  \* the list the current loop iterates
    idx,           \* 1-based position in that list
    suggestions,   \* local `suggestions` of the transaction under review
    llmCalls,      \* transactions passed to categorize_transaction this run
    llmRaised,     \* those of them for which the call raised
    lastChoice,    \* action of the last value get_user_choice returned
    applied,       \* per transaction: result of _apply_categorization
    reviewEntry,   \* per transaction: its cache entry when its review began
    prompts,       \* transactions for which a review prompt was shown
    outcome,       \* how each transaction's loop iteration ended this run
    summary,       \* _print_summary was called
    exitCode,      \* argument of sys.exit, -1 while none
    run,           \* number of the current run on this cache file
    cachePrev,     \* the cache as the current run found it
    fetchedPrev,   \* the list the previous run's loop iterated
    file,          \* the cache file (cache_file_path)
    writable,      \* whether cache_file_path can be opened for writing
    cache_type,    \* type of CacheManager._cache: "dict", "array"; "none"
                   \* when the constructor raised
    last,          \* the last call made to the CacheManager (SpecCache)
    fzf_available, \* CategorySelector.fzf_available
    matches,       \* the result list _display_search_results shows
    keylog,        \* per prompt, the last key typed at it (SpecDialog)
    llm,           \* one call into the LMStudioClient (SpecParse, SpecLookup)
    startup,       \* what run() did before its mode routine: _initialize
                   \* and the fetches of uncategorized transactions
    money,         \* the last call of _apply_categorization and what it
                   \* passed to the MoneyMoneyClient (SpecApply)
    search,        \* one call of _find_matching_categories (SpecSearch)
    args           \* the keyword arguments of TransactionCategorizer()

vars == <<mode, test_mode, dry_run, cache, category, stats, pc, transactions,
          idx, suggestions, llmCalls, llmRaised, lastChoice, applied,
          reviewEntry, prompts, outcome, summary, exitCode, run, cachePrev,
          fetchedPrev, file, writable, cache_type, last, fzf_available,
          matches, keylog, llm, startup, money, search, args>>

hist == <<run, cachePrev, fetchedPrev>>

flags == <<mode, test_mode, dry_run, fzf_available, args>>

\* what the coordinator never changes: the file system's permissions, the
\* type of the cache it constructed, and the state of the other components
aside == <<writable, cache_type, last, llm, startup, money, search>>

\* the part of it that run() leaves alone too
units == <<writable, cache_type, last, llm, money, search>>

Modes == {"prerun", "apply", "combined", "legacy"}

\* no TransactionCategorizer was constructed
NoArgs == [pre_run_only |-> FALSE, apply_only |-> FALSE,
           combined_mode |-> "None"]

\* pre_run_only and apply_only as main() passes them, combined_mode as a
\* caller can pass it: None (the default), True or False
ArgSets ==
    [pre_run_only : BOOLEAN, apply_only : BOOLEAN,
     combined_mode : {"None", "True", "False"}]

\* __init__: combined is the default unless a specific mode is selected
combined_mode(a) ==
    IF a.combined_mode = "None" THEN ~(a.pre_run_only \/ a.apply_only)
    ELSE a.combined_mode = "True"

\* a routing that tests apply_only first
RouteApplyFirst(pre_run_only, apply_only, combined) ==
    IF apply_only THEN "apply"
    ELSE IF pre_run_only THEN "prerun"
    ELSE IF combined THEN "combined"
    ELSE "legacy"

\* run(): the if/elif chain that calls one mode routine
Route(pre_run_only, apply_only, combined) ==
    IF pre_run_only THEN "prerun"
    ELSE IF apply_only THEN "apply"
    ELSE IF combined THEN "combined"
    ELSE "legacy"

\* the arguments main() passes for each mode (combined_mode is never
\* passed by main(); the single-pass loop needs it to be False)
ArgsOf(m) ==
    [pre_run_only |-> m = "prerun", apply_only |-> m = "apply",
     combined_mode |-> IF m = "legacy" THEN "False" ELSE "None"]

ZeroStats == [processed |-> 0, categorized |-> 0, skipped |-> 0, errors |-> 0]

NoOutcome == [t \in Tx |-> "none"]

\* no call was made to the CacheManager yet
NoCall ==
    [op |-> "none", id |-> 0, s |-> <<>>, saved |-> "n/a", raised |-> FALSE]

\* no key was typed at any prompt yet
NoQuery == [kind |-> "none", len |-> 0, hits |-> 0]

\* no line typed at "Search: " yet: nothing printed, no search made
NoLine == [query |-> NoQuery, message |-> "none", find |-> FALSE]

NoKeys == [review |-> "none", results |-> "none", proposal |-> "none",
           again |-> {}, line |-> NoLine, rule |-> "none",
           offer |-> "none"]

\* categorize_transaction is not being looked at on its own
NoLlm == [pc |-> "unused", op |-> "none", response |-> <<>>,
          validated |-> <<>>, returned |-> <<>>, rule |-> <<>>,
          raised |-> "none"]

\* run() was not called yet
NoStartup == [connected |-> FALSE, categories |-> 0, fetches |-> 0,
              routine |-> "none"]

\* _apply_categorization is not being looked at on its own
NoMoney == [op |-> "none", id |-> 0, category |-> 0, path |-> <<>>,
            result |-> FALSE]

\* _find_matching_categories is not being looked at on its own
NoSearch == [pc |-> "unused", categories |-> <<>>, result |-> <<>>]

\* the fields of TransactionCategorizer after __init__, before run()
Idle ==
    /\ startup = NoStartup
    /\ matches = <<>>
    /\ keylog = NoKeys
    /\ category = [t \in Tx |-> 0]
    /\ stats = ZeroStats
    /\ pc = "idle"
    /\ transactions = <<>>
    /\ idx = 0
    /\ suggestions = None
    /\ llmCalls = {}
    /\ llmRaised = {}
    /\ lastChoice = "none"
    /\ applied = [t \in Tx |-> "none"]
    /\ reviewEntry = [t \in Tx |-> None]
    /\ prompts = {}
    /\ outcome = NoOutcome
    /\ summary = FALSE
    /\ exitCode = -1
    /\ run = 1
    /\ fetchedPrev = <<>>

\* TransactionCategorizer.__init__ with CacheManager.__init__ on a file
\* that holds one of the persisted mappings caches
LoadedOn(caches) ==
    /\ file \in {File("object", c) : c \in caches}
    /\ cache = _load_cache(file).mem
    /\ cache_type = _load_cache(file).type
    /\ cachePrev = cache
    /\ last = NoCall
    /\ llm = NoLlm
    /\ money = NoMoney
    /\ search = NoSearch
    /\ Idle

\* the same, the arguments being those main() passes for the mode
ConstructedOn(caches) ==
    /\ args = ArgsOf(mode)
    /\ LoadedOn(caches)

Constructed == ConstructedOn(LoadableCaches)

\* the program started with fzf installed and a writable cache path
Init ==
    /\ mode \in Modes
    /\ test_mode \in BOOLEAN
    /\ dry_run \in BOOLEAN
    /\ fzf_available = TRUE
    /\ writable = TRUE
    /\ Constructed

\* ------------------------------------------------------------ helpers
\* the platform's answer to get_uncategorized_transactions, or [] when
\* _load_transactions caught an exception
Uncategorized == SelectSeq([t \in Tx |-> t], LAMBDA t : category[t] = 0)

FetchResults == {Uncategorized, <<>>}

\* categorize_transaction: raises (None) or returns a list
LlmOutcomes == {None} \cup {Some(l) : l \in LlmLists}

\* a bug: the filter on cached ids left out
ApplyOnlyUnfiltered(fetched, cached_ids) == fetched

\* _run_apply_only: [t for t in transactions if str(t.get('id','')) in cached_ids]
ApplyOnlyWorkingSet(fetched, cached_ids) ==
    SelectSeq(fetched, LAMBDA t : Key(TxId(t)) \in cached_ids)

\* a bug: phase 2 of combined mode calling _process_single_transaction
UsesCacheApplyOnly(m) == m = "apply"

\* which review routine the loop calls: _process_single_transaction_cached
\* (apply-only, combined phase 2) or _process_single_transaction (legacy)
UsesCache(m) == m \in {"apply", "combined"}

\* a bug: a bare `except:` around the review call
SystemExitCaughtBare == TRUE

\* `except Exception` around the review call does not catch SystemExit
SystemExitCaught == FALSE

\* a bug: test mode reviewing a transaction that has no suggestions
ExitOnNoSuggestionsNever(test, sugg) == FALSE


\* a bug: the test_mode condition left out
ExitOnNoSuggestionsAlways(test, sugg) == Falsy(sugg)

\* `if self.test_mode and not suggestions: sys.exit(1)`
ExitOnNoSuggestions(test, sugg) == test /\ Falsy(sugg)

\* a bug: eviction not guarded by `if success:`
EvictAlways(success) == TRUE

\* `if success:` guarding rule offer and eviction in cached review
EvictAfterApply(success) == success

\* the except clause of phase 1 only logs; the tallies are not touched
Phase1ErrorTally(st) == st

\* a loop that counts every returned review as categorized
TallyAcceptedAsCategorized(st, res) ==
    CASE res \in {"categorized", "applyfail"} ->
             [st EXCEPT !.categorized = @ + 1]
      [] res = "error" -> [st EXCEPT !.errors = @ + 1]
      [] OTHER -> [st EXCEPT !.skipped = @ + 1]

\* stats[...] += 1 at the end of a review iteration
Tally(st, res) ==
    CASE res = "categorized" -> [st EXCEPT !.categorized = @ + 1]
      [] res = "error"       -> [st EXCEPT !.errors = @ + 1]
      [] OTHER               -> [st EXCEPT !.skipped = @ + 1]

\* a bug: no try/except around the review call, the exception reaches main()
NextLocationAbort(res, test, i, n) ==
    IF res = "error" THEN "aborted"
    ELSE IF test \/ i >= n THEN "done" ELSE "loop"

\* a bug: the test-mode `break` left out
NextLocationNoBreak(res, test, i, n) ==
    IF i >= n THEN "done" ELSE "loop"

\* where the review loop goes after an iteration that ended with res:
\* the try/except swallows the exception, test mode breaks after one pass
NextLocation(res, test, i, n) ==
    IF test \/ i >= n THEN "done" ELSE "loop"

\* a bug: --pre-run-only falling through into the review loop
ReviewsAfterPhase1Always(m) == TRUE


\* whether a review loop follows the pre-processing loop: it does in
\* _run_combined_mode, _run_pre_run_only returns
ReviewsAfterPhase1(m) == m = "combined"

\* a bug: the `if suggestions:` guard of the pre-processing loop left out
StoreIfAny(s) == TRUE


\* `if suggestions:` before store_suggestions in the pre-processing loops
StoreIfNonEmpty(s) == s # <<>>

\* cache_manager.store_suggestions(id, s) as the coordinator calls it: the
\* mapping is updated, then written through
Store(id, s) ==
    /\ cache' = store_suggestions(cache, id, s)
    /\ file' = _save_cache(store_suggestions(cache, id, s), file, writable)

\* cache_manager.remove_suggestions(id) as the coordinator calls it: a
\* present key is deleted and the mapping written through, an absent key
\* leaves mapping and file alone
Evict(id) ==
    IF Key(id) \in DOMAIN cache
    THEN /\ cache' = remove_suggestions(cache, id)
         /\ file' = _save_cache(remove_suggestions(cache, id), file, writable)
    ELSE UNCHANGED <<cache, file>>

\* sys.exit(code)
Exit(code) ==
    /\ pc' = "exited"
    /\ exitCode' = code
    /\ UNCHANGED <<transactions, idx, suggestions, outcome, summary>>

\* the loop body's tail: tally, test-mode break, next element or summary
EndIteration(t, st, res) ==
    LET loc == NextLocation(res, test_mode, idx, Len(transactions)) IN
    /\ stats' = Tally(st, res)
    /\ outcome' = [outcome EXCEPT ![t] = res]
    /\ suggestions' = None
    /\ UNCHANGED transactions
    /\ CASE loc = "loop" -> /\ pc' = "loop"
                            /\ idx' = idx + 1
                            /\ UNCHANGED <<summary, exitCode>>
         [] loc = "done" -> /\ pc' = "done"
                            /\ summary' = TRUE
                            /\ UNCHANGED <<idx, exitCode>>
         [] OTHER        -> /\ pc' = "exited"
                            /\ exitCode' = 1
                            /\ UNCHANGED <<idx, summary>>

\* a mode routine or run() returns; run() prints the summary when the
\* routine was entered
Return(printed) ==
    /\ pc' = "done"
    /\ summary' = printed
    /\ UNCHANGED <<cache, file, category, stats, transactions, idx, suggestions,
                   llmCalls, llmRaised, lastChoice, applied, reviewEntry,
                   prompts, outcome, exitCode>>

\* ------------------------------------------------------------ run()
\* a bug: run() going on after _initialize returned False
InitializeOkAlways(connected, ncat) == TRUE


\* _initialize: test_connection() answered connected, get_categories()
\* returned ncat categories
InitializeOk(connected, ncat) == connected /\ ncat > 0

\* what run() did before the mode routine took over
Startup(connected, ncat, fetches) ==
    [connected |-> connected, categories |-> IF connected THEN ncat ELSE 0,
     fetches |-> fetches, routine |-> "none"]

\* the same when run() reached its if/elif chain and called routine m
Routed(connected, ncat, fetches, m) ==
    [Startup(connected, ncat, fetches) EXCEPT !.routine = m]

\* run() up to the first loop or blocking input of the selected mode
Run ==
    /\ pc = "idle"
    /\ UNCHANGED <<flags, units, matches, keylog, hist>>
    /\ \E connected \in BOOLEAN, ncat \in {0, NumCat},
          f1 \in FetchResults, f2 \in FetchResults :
         IF ~InitializeOk(connected, ncat)
         THEN /\ Return(FALSE)
              /\ startup' = Startup(connected, ncat, 0)
         ELSE IF f1 = <<>>
         THEN /\ Return(FALSE)
              /\ startup' = Startup(connected, ncat, 1)
         ELSE IF mode \in {"prerun", "combined"} THEN
            /\ startup' = Routed(connected, ncat, 2, mode)
            /\ IF f2 = <<>> THEN Return(TRUE)
               ELSE /\ pc' = "phase1"
                    /\ transactions' = f2
                    /\ idx' = 1
                    /\ UNCHANGED <<cache, file, category, stats, suggestions,
                                   llmCalls, llmRaised, lastChoice, applied,
                                   reviewEntry, prompts, outcome, summary,
                                   exitCode>>
         ELSE IF mode = "apply" THEN
            LET cached_ids == get_cached_transaction_ids(cache)
                cached_transactions == ApplyOnlyWorkingSet(f2, cached_ids)
            IN  /\ startup' = Routed(connected, ncat,
                                     IF cached_ids = {} THEN 1 ELSE 2, mode)
                /\ IF cached_ids = {} \/ f2 = <<>> \/ cached_transactions = <<>>
                   THEN Return(TRUE)
                   ELSE /\ pc' = IF test_mode THEN "loop" ELSE "press_enter"
                        /\ transactions' = cached_transactions
                        /\ idx' = 1
                        /\ UNCHANGED <<cache, file, category, stats,
                                       suggestions, llmCalls, llmRaised,
                                       lastChoice, applied, reviewEntry,
                                       prompts, outcome, summary, exitCode>>
         ELSE /\ startup' = Routed(connected, ncat, 1, mode)
              /\ pc' = IF test_mode THEN "loop" ELSE "press_enter"
              /\ transactions' = f1
              /\ idx' = 1
              /\ UNCHANGED <<cache, file, category, stats, suggestions, llmCalls,
                             llmRaised, lastChoice, applied, reviewEntry,
                             prompts, outcome, summary, exitCode>>

\* one iteration of the pre-processing loop (_run_pre_run_only, and
\* phase 1 of _run_combined_mode), with the code after the loop when it
\* was the last one
Phase1Step ==
    /\ pc = "phase1"
    /\ LET t == transactions[idx]
           id == TxId(t)
       IN  IF ~Truthy(id) \/ has_suggestions(cache, id)
           THEN UNCHANGED <<cache, file, llmCalls, llmRaised, stats,
                            suggestions>>
           ELSE \E r \in LlmOutcomes :
                  /\ llmCalls' = llmCalls \cup {t}
                  /\ IF r = None
                     THEN /\ llmRaised' = llmRaised \cup {t}
                          /\ stats' = Phase1ErrorTally(stats)
                          /\ UNCHANGED <<cache, file, suggestions>>
                     ELSE /\ UNCHANGED <<stats, llmRaised>>
                          /\ suggestions' = r
                          /\ IF StoreIfNonEmpty(r[1])
                             THEN Store(id, r[1])
                             ELSE UNCHANGED <<cache, file>>
    /\ IF idx < Len(transactions)
       THEN /\ idx' = idx + 1
            /\ UNCHANGED <<pc, summary>>
       ELSE IF ReviewsAfterPhase1(mode)
       THEN /\ pc' = IF test_mode THEN "loop" ELSE "press_enter"
            /\ idx' = 1
            /\ UNCHANGED summary
       ELSE /\ pc' = "done"
            /\ summary' = TRUE
            /\ UNCHANGED idx
    /\ UNCHANGED <<flags, aside, matches, keylog, category, transactions,
                   lastChoice, applied, reviewEntry, prompts, outcome,
                   exitCode, hist>>

\* input("Press Enter to start ...") returns
PressEnter ==
    /\ pc = "press_enter"
    /\ pc' = "loop"
    /\ UNCHANGED <<flags, aside, matches, keylog, cache, file, category, stats, transactions, idx,
                   suggestions, llmCalls, llmRaised, lastChoice, applied,
                   reviewEntry, prompts, outcome, summary, exitCode, hist>>

\* ------------------------------------------------------- review loop
\* sys.exit(code) raised inside the loop's try block
SysExit(t, st, code) ==
    IF SystemExitCaught
    THEN EndIteration(t, st, "error")
    ELSE Exit(code) /\ stats' = st

\* self.stats['processed'] += 1
Processed(st) == [st EXCEPT !.processed = @ + 1]

\* head of a review iteration (_process_transactions, phase 2 of
\* _run_combined_mode, _run_apply_only) up to the first prompt
ReviewBegin ==
    /\ pc = "loop"
    /\ LET t == transactions[idx]
           id == TxId(t)
           st == Processed(stats)
       IN  IF UsesCache(mode)
           THEN LET sugg == get_suggestions(cache, id) IN
                /\ UNCHANGED <<llmCalls, llmRaised>>
                /\ IF ~Truthy(id)
                   THEN /\ EndIteration(t, st, "noid")
                        /\ UNCHANGED <<reviewEntry, prompts>>
                   ELSE /\ reviewEntry' = [reviewEntry EXCEPT ![t] = sugg]
                        /\ IF ExitOnNoSuggestions(test_mode, sugg)
                           THEN SysExit(t, st, 1) /\ UNCHANGED prompts
                           ELSE IF ~Falsy(sugg) /\ Malformed(sugg[1])
                           THEN EndIteration(t, st, "error") /\ UNCHANGED prompts
                           ELSE /\ pc' = "prompt"
                                /\ suggestions' = sugg
                                /\ stats' = st
                                /\ prompts' = IF test_mode THEN prompts
                                              ELSE prompts \cup {t}
                                /\ UNCHANGED <<transactions, idx, outcome,
                                               summary, exitCode>>
           ELSE \E r \in LlmOutcomes :
                /\ llmCalls' = llmCalls \cup {t}
                /\ llmRaised' = IF r = None THEN llmRaised \cup {t}
                                ELSE llmRaised
                /\ UNCHANGED reviewEntry
                /\ IF r = None
                   THEN EndIteration(t, st, "error") /\ UNCHANGED prompts
                   ELSE IF ExitOnNoSuggestions(test_mode, r)
                   THEN SysExit(t, st, 1) /\ UNCHANGED prompts
                   ELSE /\ pc' = "prompt"
                        /\ suggestions' = r
                        /\ stats' = st
                        /\ prompts' = IF test_mode THEN prompts
                                      ELSE prompts \cup {t}
                        /\ UNCHANGED <<transactions, idx, outcome, summary,
                                       exitCode>>
    /\ lastChoice' = "none"
    /\ UNCHANGED <<flags, aside, matches, keylog, cache, file, category,
                   applied, hist>>

\* the digits typed in the model: 0, every position a list can have, and
\* one beyond the longest list
Digits == 0 .. NumCat + 1

\* _getch(): one character; "x" stands for every key without a meaning
ReviewKeys == {"q", "n", "s", "x"} \cup {ToString(d) : d \in Digits}
OfferKeys == {"y", "n", "x"}
ProposalKeys == {"c", "d", "x"}
ResultKeys == {"b", "r", "x"} \cup {ToString(d) : d \in Digits}

\* str.isdigit and int() on one character
DecimalDigits == 0 .. 9
IsDigit(k) == \E d \in DecimalDigits : ToString(d) = k
DigitValue(k) == CHOOSE d \in DecimalDigits : ToString(d) = k

\* a bug: `idx < len(...)` without the lower bound, so that "0" gives
\* idx = -1, the last element
ValidIndexUnbounded(i, n) == i < n


\* `0 <= idx < len(...)`
ValidIndex(i, n) == 0 <= i /\ i < n

\* list[i] of Python for a 0-based i that may be negative; outside
\* -len .. len-1 it raises IndexError
InRange(list, i) == 0 - Len(list) <= i /\ i < Len(list)
PyIndex(list, i) == IF i < 0 THEN list[Len(list) + 1 + i] ELSE list[i + 1]

Choice(a, c) == [action |-> a, category |-> c]

\* fzf's exit status: a selection, no match, cancelled (ESC, Ctrl-C), any
\* other
FzfReturnCodes == {0, 1, 130, 2}

\* what fzf printed: the full name of category c, or 0 for a line that is
\* the full name of no category
FzfSelections == 0 .. NumCat

\* an fzf search that gives None when the user cancels
fzf_search_none_on_cancel(returncode, selected) ==
    IF returncode = 0 /\ selected \in Categories
    THEN Choice("categorize", selected)
    ELSE IF returncode = 130 THEN Choice("quit", 0)
    ELSE Choice("back", 0)

\* _fzf_search_categories once fzf ended: exit status 0 returns the
\* category whose full_name is the line printed, and falls through to the
\* final {'action': 'back'} when there is none; every other status
\* returns {'action': 'back'}
_fzf_search_categories(returncode, selected) ==
    IF returncode = 0 /\ selected \in Categories
    THEN Choice("categorize", selected)
    ELSE Choice("back", 0)

\* _search_categories with fzf installed
SearchResults ==
    {_fzf_search_categories(rc, sel) :
        rc \in FzfReturnCodes, sel \in FzfSelections}

\* one digit typed at a numbered list: the element selected, or a re-prompt
\* ("Invalid selection", or an exception caught inside the prompt's loop)
Select(key, list) ==
    LET i == DigitValue(key) - 1 IN
    IF ValidIndex(i, Len(list)) /\ InRange(list, i)
    THEN {Choice("categorize", PyIndex(list, i))}
    ELSE {Choice("reprompt", 0)}

\* CategorySelector.get_user_choice for one key press; "quit" is the None
\* return, "reprompt" is another pass of its while loop (len(None) raises
\* TypeError, which its `except Exception` turns into another pass)
get_user_choice(test, key, sugg) ==
    IF test THEN {Choice("skip", 0)}
    ELSE CASE key = "q" -> {Choice("quit", 0)}
           [] key = "n" -> {Choice("skip", 0)}
           [] key = "s" -> SearchResults
           [] IsDigit(key) ->
                IF sugg # None THEN Select(key, sugg[1])
                ELSE {Choice("reprompt", 0)}
           [] OTHER -> {Choice("reprompt", 0)}

\* a bug: _apply_categorization returning False in dry-run
ApplyResultOkOnly(a) == IF a = "ok" THEN "categorized" ELSE "applyfail"


\* what the review returns to the loop once the category was applied or not
ApplyResult(a) == IF a \in {"ok", "dry"} THEN "categorized" ELSE "applyfail"

\* end of _process_single_transaction_cached after _apply_categorization
\* succeeded: remove_suggestions, return success
FinishCached(t) ==
    /\ Evict(TxId(t))
    /\ EndIteration(t, stats, ApplyResult(applied[t]))

\* the caller's code after _apply_categorization returned a
AfterApply(t, a) ==
    IF UsesCache(mode)
    THEN IF EvictAfterApply(a \in {"ok", "dry"})
         THEN IF ~test_mode
              THEN /\ pc' = "rule_offer"
                   /\ UNCHANGED <<cache, file, stats, outcome, suggestions,
                                  transactions, idx, summary, exitCode>>
              ELSE /\ Evict(TxId(t))
                   /\ EndIteration(t, stats, ApplyResult(a))
         ELSE /\ UNCHANGED <<cache, file>>
              /\ EndIteration(t, stats, ApplyResult(a))
    ELSE /\ UNCHANGED <<cache, file>>
         /\ EndIteration(t, stats, ApplyResult(a))

\* _apply_categorization(transaction, c) and what follows it
Categorize(t, c) ==
    IF ~Truthy(TxId(t))
    THEN /\ UNCHANGED <<category, applied>>
         /\ AfterApply(t, "noid")
    ELSE IF dry_run
    THEN /\ applied' = [applied EXCEPT ![t] = "dry"]
         /\ UNCHANGED category
         /\ AfterApply(t, "dry")
    ELSE \E ok \in BOOLEAN :
         /\ applied' = [applied EXCEPT ![t] = IF ok THEN "ok" ELSE "failed"]
         /\ category' = IF ok THEN [category EXCEPT ![t] = c] ELSE category
         /\ AfterApply(t, IF ok THEN "ok" ELSE "failed")

\* a review that takes 'back' for a skip
ReviewBranchBackSkips(action) ==
    CASE action = "quit" -> "exit"
      [] action \in {"skip", "back"} -> "skip"
      [] action = "categorize" -> "categorize"
      [] OTHER -> "continue"

\* the branch the review's loop takes: `if not choice` exits, 'skip' and
\* 'categorize' return, 'back' is `continue`
ReviewBranch(action) ==
    CASE action = "quit" -> "exit"
      [] action = "skip" -> "skip"
      [] action = "categorize" -> "categorize"
      [] OTHER -> "continue"

\* the review's `while True` body for one value get_user_choice returned
\* (or for another pass of get_user_choice's own loop)
Decide(t, choice) ==
    /\ lastChoice' = IF choice.action = "reprompt" THEN lastChoice
                     ELSE choice.action
    /\ CASE ReviewBranch(choice.action) = "exit" ->
             /\ SysExit(t, stats, 0)
             /\ UNCHANGED <<cache, file, category, applied>>
         [] ReviewBranch(choice.action) = "skip" ->
             /\ IF UsesCache(mode) THEN Evict(TxId(t))
                ELSE UNCHANGED <<cache, file>>
             /\ EndIteration(t, stats, "skipped")
             /\ UNCHANGED <<category, applied>>
         [] ReviewBranch(choice.action) = "categorize" ->
             Categorize(t, choice.category)
         [] OTHER ->
             /\ pc' = "prompt"
             /\ UNCHANGED <<cache, file, category, applied, stats, outcome,
                            suggestions, transactions, idx, summary,
                            exitCode>>

\* what the dialogue of one review leaves alone
DialogueFrame ==
    UNCHANGED <<flags, aside, llmCalls, llmRaised, reviewEntry, prompts, hist>>

\* one key at the review prompt: 's' without fzf opens the line-based
\* search, every other key is answered by get_user_choice
Press(key) ==
    IF key = "s" /\ ~test_mode /\ ~fzf_available
    THEN /\ pc' = "search"
         /\ UNCHANGED <<lastChoice, cache, file, category, applied, stats,
                        outcome, suggestions, transactions, idx, summary,
                        exitCode>>
    ELSE \E choice \in get_user_choice(test_mode, key, suggestions) :
            Decide(transactions[idx], choice)

\* one key at the review prompt and the loop body's reaction to the choice
UserChoice ==
    /\ pc = "prompt"
    /\ \E key \in ReviewKeys : Press(key)
    /\ UNCHANGED <<matches, keylog>>
    /\ DialogueFrame

\* the control locations inside the dialogue of one review
DialoguePcs == {"prompt", "search", "results", "rule_offer", "rule_proposal"}

\* the record of keys typed during the current review: key was typed at
\* prompt p; the record is dropped when the step ends the review
Logged(p, key) ==
    keylog' = IF pc' \in DialoguePcs
              THEN [keylog EXCEPT ![p] = key,
                                  !.again = IF pc' = pc THEN @ \cup {p}
                                            ELSE @,
                                  !.line = NoLine,
                                  !.rule = "none",
                                  !.offer = IF p = "proposal" THEN @
                                            ELSE "none"]
              ELSE NoKeys

\* the same, the key being recorded
UserChoiceLogged ==
    /\ pc = "prompt"
    /\ \E key \in ReviewKeys :
         /\ Press(key)
         /\ Logged("review", key)
    /\ UNCHANGED matches
    /\ DialogueFrame

\* Config.SEARCH_MIN_CHARS
SEARCH_MIN_CHARS == 2

\* what input("Search: ") can give: the word back, Ctrl-C, end of input,
\* or a query, of which only its length and the number of categories whose
\* name contains it matter here
SearchInputs ==
    {[kind |-> k, len |-> 0, hits |-> 0] : k \in {"back", "interrupt", "eof"}}
    \cup {[kind |-> "query", len |-> n, hits |-> h] :
             n \in 0 .. SEARCH_MIN_CHARS, h \in 0 .. NumCat}

\* _find_matching_categories for a query that h categories contain: the
\* ranked list
FoundCategories(h) == [i \in 1 .. h |-> i]

\* a gate that lets every query through
TooShortNever(query_len) == FALSE

\* len(query) < Config.SEARCH_MIN_CHARS
TooShort(query_len) == query_len < SEARCH_MIN_CHARS

\* what one line typed at "Search: " prints and whether it reaches
\* _find_matching_categories
SearchLine(q) ==
    [query |-> q,
     message |-> IF q.kind # "query" THEN "none"
                 ELSE IF TooShort(q.len) THEN "min_chars"
                 ELSE IF q.hits = 0 THEN "no_match"
                 ELSE "none",
     find |-> q.kind = "query" /\ ~TooShort(q.len)]

\* _fallback_search_categories: one line typed at "Search: "
Search ==
    /\ pc = "search"
    /\ \E q \in SearchInputs :
         /\ CASE q.kind \in {"back", "interrupt"} ->
                  /\ Decide(transactions[idx], Choice("back", 0))
                  /\ UNCHANGED matches
             [] q.kind = "eof" ->
                  \* EOFError leaves the search and is caught by the loop
                  \* of get_user_choice, which prompts again
                  /\ Decide(transactions[idx], Choice("reprompt", 0))
                  /\ UNCHANGED matches
             [] q.kind = "query" /\ ~TooShort(q.len) /\ q.hits > 0 ->
                  /\ pc' = "results"
                  /\ matches' = FoundCategories(q.hits)
                  /\ UNCHANGED <<lastChoice, cache, file, category, applied,
                                 stats, outcome, suggestions, transactions,
                                 idx, summary, exitCode>>
             [] OTHER ->
                  UNCHANGED <<pc, matches, lastChoice, cache, file, category,
                              applied, stats, outcome, suggestions,
                              transactions, idx, summary, exitCode>>
         /\ keylog' = [keylog EXCEPT !.line = SearchLine(q)]
    /\ DialogueFrame

\* _display_search_results for one key: 'b' goes back to the search line,
\* 'r' returns {'action': 'back'}, a digit selects from the list shown
ResultKey(key) ==
    CASE key = "b" ->
           /\ pc' = "search"
           /\ matches' = <<>>
           /\ UNCHANGED <<lastChoice, cache, file, category, applied, stats,
                          outcome, suggestions, transactions, idx, summary,
                          exitCode>>
      [] key = "r" ->
           /\ Decide(transactions[idx], Choice("back", 0))
           /\ matches' = <<>>
      [] IsDigit(key) ->
           \E choice \in Select(key, matches) :
              IF choice.action = "categorize"
              THEN /\ Decide(transactions[idx], choice)
                   /\ matches' = <<>>
              ELSE UNCHANGED <<pc, matches, lastChoice, cache, file, category,
                               applied, stats, outcome, suggestions,
                               transactions, idx, summary, exitCode>>
      [] OTHER ->
           UNCHANGED <<pc, matches, lastChoice, cache, file, category,
                       applied, stats, outcome, suggestions, transactions,
                       idx, summary, exitCode>>

\* one key at the result list, recorded
ResultChoiceLogged ==
    /\ pc = "results"
    /\ \E key \in ResultKeys :
         /\ ResultKey(key)
         /\ Logged("results", key)
    /\ DialogueFrame

\* generate_categorization_rule inside _propose_rule_generation's try
RuleOutcomes == {"none", "raise", "rule"}

\* _propose_rule_generation without its try/except
RuleErrorUncaught == FALSE

\* the body of _propose_rule_generation is try/except Exception
RuleErrorCaught == TRUE

\* offer_rule_generation: `return choice == 'y'`
offer_rule_generation(key) == key = "y"

\* what the user answered to the offer
OfferAnswer(key) ==
    IF offer_rule_generation(key) THEN "accepted" ELSE "declined"

\* how _propose_rule_generation ends at the offer: the user said no, the
\* suggestion source gave no rule, or an exception was caught; "none"
\* when it goes on to the proposal
OfferEnd(key, gen) ==
    IF ~offer_rule_generation(key) THEN "declined"
    ELSE IF gen = "none" THEN "no_rule"
    ELSE IF gen = "raise" THEN "raised"
    ELSE "none"

\* a rule generation that does not wait for the answer to the offer
OfferKeyAnyAnswer(key, gen) ==
    IF gen = "rule"
    THEN /\ pc' = "rule_proposal"
         /\ UNCHANGED <<cache, file, stats, outcome, suggestions,
                        transactions, idx, summary, exitCode>>
    ELSE FinishCached(transactions[idx])

\* offer_rule_generation for one key: 'y' asks the suggestion source for
\* a rule, every other key is a no
OfferKey(key, gen) ==
    IF offer_rule_generation(key) /\ gen = "rule"
    THEN /\ pc' = "rule_proposal"
         /\ UNCHANGED <<cache, file, stats, outcome, suggestions,
                        transactions, idx, summary, exitCode>>
    ELSE IF offer_rule_generation(key) /\ gen = "raise" /\ ~RuleErrorCaught
    THEN /\ Exit(1)
         /\ UNCHANGED <<cache, file, stats>>
    ELSE FinishCached(transactions[idx])

\* one key at the rule offer
RuleOffer ==
    /\ pc = "rule_offer"
    /\ \E key \in OfferKeys, gen \in RuleOutcomes : OfferKey(key, gen)
    /\ UNCHANGED <<matches, keylog, category, lastChoice, applied>>
    /\ DialogueFrame

\* the same, the record of keys being dropped when the review ends and
\* the way the rule generation ended being kept
RuleOfferLogged ==
    /\ pc = "rule_offer"
    /\ \E key \in OfferKeys, gen \in RuleOutcomes :
         /\ OfferKey(key, gen)
         /\ keylog' = IF pc' \in DialoguePcs
                      THEN [keylog EXCEPT !.offer = OfferAnswer(key)]
                      ELSE [NoKeys EXCEPT !.rule = OfferEnd(key, gen),
                                          !.offer = OfferAnswer(key)]
    /\ UNCHANGED <<matches, category, lastChoice, applied>>
    /\ DialogueFrame

\* display_rule_proposal for one key, pbcopy succeeding or not: 'c'
\* returns 'copy' whether or not _copy_rule_to_clipboard succeeded, 'd'
\* returns 'declined', every other key prompts again
display_rule_proposal(key, copied) ==
    IF key = "c" THEN "copy"
    ELSE IF key = "d" THEN "declined"
    ELSE "again"

\* how _propose_rule_generation ends at the proposal
ProposalEnd(key, copied) ==
    IF key = "c" THEN IF copied THEN "copied" ELSE "copy_failed"
    ELSE IF key = "d" THEN "rule_declined"
    ELSE "none"

\* one key at the rule proposal
ProposalKey(key, copied) ==
    IF display_rule_proposal(key, copied) # "again"
    THEN FinishCached(transactions[idx])
    ELSE UNCHANGED <<cache, file, stats, outcome, suggestions, transactions,
                     pc, idx, summary, exitCode>>

\* one key at the rule proposal
RuleProposal ==
    /\ pc = "rule_proposal"
    /\ \E key \in ProposalKeys, copied \in BOOLEAN : ProposalKey(key, copied)
    /\ UNCHANGED <<matches, keylog, category, lastChoice, applied>>
    /\ DialogueFrame

\* the same, the key and the way the rule generation ended being recorded
RuleProposalLogged ==
    /\ pc = "rule_proposal"
    /\ \E key \in ProposalKeys, copied \in BOOLEAN :
         /\ ProposalKey(key, copied)
         /\ IF pc' \in DialoguePcs THEN Logged("proposal", key)
            ELSE keylog' = [NoKeys EXCEPT !.rule = ProposalEnd(key, copied),
                                          !.offer = keylog.offer]
    /\ UNCHANGED <<matches, category, lastChoice, applied>>
    /\ DialogueFrame

Next ==
    \/ Run
    \/ Phase1Step
    \/ PressEnter
    \/ ReviewBegin
    \/ UserChoice
    \/ RuleOffer
    \/ RuleProposal

Spec == Init /\ [][Next]_vars

\* ------------------------------------------------------- --test runs
\* the program started with --test: no key is read, one transaction is
\* reviewed
InitTestMode ==
    /\ mode \in Modes
    /\ test_mode = TRUE
    /\ dry_run \in BOOLEAN
    /\ fzf_available = TRUE
    /\ writable = TRUE
    /\ Constructed

NextTestMode ==
    \/ Run
    \/ Phase1Step
    \/ ReviewBegin
    \/ UserChoice

SpecTestMode == InitTestMode /\ [][NextTestMode]_vars

\* ------------------------------------------------- interactive reviews
\* the cache files whose entries are well-formed, non-empty lists
ReviewableCaches ==
    UNION {[K -> {<<1>>}] :
             K \in {S \in SUBSET Keys : Cardinality(S) <= MaxFileEntries}}

\* the program started on a terminal in a mode that reviews, with and
\* without --dry-run
InitInteractive ==
    /\ mode \in {"apply", "combined", "legacy"}
    /\ test_mode = FALSE
    /\ dry_run \in BOOLEAN
    /\ fzf_available = TRUE
    /\ writable = TRUE
    /\ ConstructedOn(ReviewableCaches)

SpecInteractive == InitInteractive /\ [][Next]_vars

\* ------------------------------------------------------ mode selection
\* a TransactionCategorizer constructed with any combination of
\* pre_run_only, apply_only and combined_mode; run() calls the routine its
\* if/elif chain selects
InitRoute ==
    /\ args \in ArgSets
    /\ mode = Route(args.pre_run_only, args.apply_only, combined_mode(args))
    /\ test_mode \in BOOLEAN
    /\ dry_run = FALSE
    /\ fzf_available = TRUE
    /\ writable = TRUE
    /\ LoadedOn(ReviewableCaches)

SpecRoute == InitRoute /\ [][Next]_vars

\* ------------------------------------------- the dialogue without fzf
\* --apply-only on a terminal, fzf not installed
InitDialog ==
    /\ mode = "apply"
    /\ test_mode = FALSE
    /\ dry_run \in BOOLEAN
    /\ fzf_available = FALSE
    /\ writable = TRUE
    /\ Constructed

NextDialog ==
    \/ Run
    \/ PressEnter
    \/ ReviewBegin
    \/ UserChoiceLogged
    \/ Search
    \/ ResultChoiceLogged
    \/ RuleOfferLogged
    \/ RuleProposalLogged

SpecDialog == InitDialog /\ [][NextDialog]_vars

\* ------------------------------------------- both variants of the search
\* 's' at the review prompt with fzf installed, Popen or communicate
\* raising an Exception: _fzf_search_categories returns what
\* _fallback_search_categories returns
FzfRaises ==
    /\ pc = "prompt"
    /\ ~test_mode
    /\ fzf_available
    /\ pc' = "search"
    /\ Logged("review", "s")
    /\ UNCHANGED <<lastChoice, cache, file, category, applied, stats, outcome,
                   suggestions, transactions, idx, summary, exitCode, matches>>
    /\ DialogueFrame

\* a cached review (--apply-only) and a single-pass review, which reads no
\* cache and starts without a cache file, with and without --test, with
\* and without fzf
InitSearchDialog ==
    /\ mode \in {"apply", "legacy"}
    /\ test_mode \in BOOLEAN
    /\ dry_run = FALSE
    /\ fzf_available \in BOOLEAN
    /\ writable = TRUE
    /\ IF mode = "apply" THEN ConstructedOn(ReviewableCaches)
       ELSE ConstructedOn({EmptyCache})

NextSearchDialog ==
    \/ NextDialog
    \/ FzfRaises

SpecSearchDialog == InitSearchDialog /\ [][NextSearchDialog]_vars

\* ------------------------------------------------- runs on one cache file
\* the process ended after run() returned; a new process constructs a
\* TransactionCategorizer with the same flags, whose CacheManager loads
\* what the previous one wrote through
Rerun ==
    /\ pc = "done"
    /\ run < MaxRuns
    /\ run' = run + 1
    /\ cache' = _load_cache(file).mem
    /\ cachePrev' = _load_cache(file).mem
    /\ fetchedPrev' = transactions
    /\ pc' = "idle"
    /\ stats' = ZeroStats
    /\ transactions' = <<>>
    /\ idx' = 0
    /\ suggestions' = None
    /\ llmCalls' = {}
    /\ llmRaised' = {}
    /\ lastChoice' = "none"
    /\ applied' = [t \in Tx |-> "none"]
    /\ reviewEntry' = [t \in Tx |-> None]
    /\ prompts' = {}
    /\ outcome' = NoOutcome
    /\ summary' = FALSE
    /\ startup' = NoStartup
    /\ UNCHANGED <<flags, units, matches, keylog, file, category, exitCode>>

\* --pre-run-only, started with a cache path that may not be writable
InitPreRun ==
    /\ mode = "prerun"
    /\ test_mode \in BOOLEAN
    /\ dry_run \in BOOLEAN
    /\ fzf_available = TRUE
    /\ writable \in BOOLEAN
    /\ Constructed

NextPreRun ==
    \/ Run
    \/ Phase1Step
    \/ Rerun

\* pre-run-only runs, one after the other, on the same cache file
SpecPreRun == InitPreRun /\ [][NextPreRun]_vars

\* ------------------------------------------- the cache manager alone
\* the ids a caller passes, the lists it stores (one of them holds a value
\* that is serializable without being a JSON value), the files found
CacheIds == 1 .. NumIds

StoreLists == {<<>>, <<1>>, <<-1>>}

CallerCaches ==
    UNION {[K -> {<<>>, <<1>>}] : K \in SUBSET {Key(i) : i \in CacheIds}}

CacheFiles ==
    {File(k, EmptyCache) : k \in FileKinds}
    \cup {File("object", c) : c \in CallerCaches}

\* the record of a call: its arguments, whether its save was written
\* ("yes"), failed ("failed") or was not attempted ("n/a"), whether it
\* raised to the caller
Call(op, id, s, saved, raised) ==
    [op |-> op, id |-> id, s |-> s, saved |-> saved, raised |-> raised]

SaveResult == IF writable THEN "yes" ELSE "failed"

\* what the harness leaves alone: there is no coordinator
NoCoordinator ==
    UNCHANGED <<flags, category, stats, pc, transactions, idx, suggestions,
                llmCalls, llmRaised, lastChoice, applied, reviewEntry,
                prompts, outcome, summary, exitCode, hist, matches, keylog,
                llm, startup, money, search>>

\* a CacheManager constructed on any file, by any caller
InitCache ==
    /\ mode = "none"
    /\ test_mode = FALSE
    /\ dry_run = FALSE
    /\ fzf_available = FALSE
    /\ writable \in BOOLEAN
    /\ file \in CacheFiles
    /\ cache = _load_cache(file).mem
    /\ cache_type = _load_cache(file).type
    /\ cachePrev = cache
    /\ last = [NoCall EXCEPT !.op = "load",
                             !.raised = _load_cache(file).raised]
    /\ llm = NoLlm
    /\ money = NoMoney
    /\ search = NoSearch
    /\ args = NoArgs
    /\ Idle

\* CacheManager(path): a fresh instance on the same file; after a
\* store_suggestions that returned, the record keeps what was stored
LoadCall ==
    /\ cache' = _load_cache(file).mem
    /\ cache_type' = _load_cache(file).type
    /\ last' = IF last.op = "store" /\ ~last.raised
               THEN Call("store_load", last.id, last.s, last.saved,
                         _load_cache(file).raised)
               ELSE Call("load", 0, <<>>, "n/a", _load_cache(file).raised)
    /\ UNCHANGED <<file, writable>>
    /\ NoCoordinator

\* store_suggestions(id, s); on a _cache that is no dict the item
\* assignment raises TypeError
StoreCall ==
    /\ cache_type # "none"
    /\ \E id \in CacheIds, s \in StoreLists :
         IF cache_type = "array"
         THEN /\ last' = Call("store", id, s, "n/a", TRUE)
              /\ UNCHANGED <<cache, file>>
         ELSE /\ Store(id, s)
              /\ last' = Call("store", id, s, SaveResult, SaveRaises(writable))
    /\ UNCHANGED <<cache_type, writable>>
    /\ NoCoordinator

\* get_suggestions(id); on a _cache that is no dict .get raises
\* AttributeError
GetCall ==
    /\ cache_type # "none"
    /\ \E id \in CacheIds :
         last' = Call("get", id, <<>>, "n/a", cache_type = "array")
    /\ UNCHANGED <<cache, file, cache_type, writable>>
    /\ NoCoordinator

\* remove_suggestions(id); `key in self._cache` is false on an array
RemoveCall ==
    /\ cache_type # "none"
    /\ \E id \in CacheIds :
         /\ Evict(id)
         /\ last' = IF Key(id) \in DOMAIN cache
                    THEN Call("remove", id, <<>>, SaveResult,
                              SaveRaises(writable))
                    ELSE Call("remove", id, <<>>, "n/a", FALSE)
    /\ UNCHANGED <<cache_type, writable>>
    /\ NoCoordinator

\* clear_cache(): self._cache = {} and a save
ClearCall ==
    /\ cache_type # "none"
    /\ cache' = clear_cache(cache)
    /\ cache_type' = "dict"
    /\ file' = _save_cache(clear_cache(cache), file, writable)
    /\ last' = Call("clear", 0, <<>>, SaveResult, SaveRaises(writable))
    /\ UNCHANGED writable
    /\ NoCoordinator

\* the environment: the cache path stops or starts being writable
Chmod ==
    /\ writable' = ~writable
    /\ UNCHANGED <<cache, file, cache_type, last>>
    /\ NoCoordinator

NextCache ==
    \/ LoadCall
    \/ StoreCall
    \/ GetCall
    \/ RemoveCall
    \/ ClearCall
    \/ Chmod

SpecCache == InitCache /\ [][NextCache]_vars

\* ----------------------------------------------------------- llm_client.py
\* SpecParse: one call of categorize_transaction on any response of the
\* model, for a category list with one category more than NUM_SUGGESTIONS.
\*
\* A string is a sequence of words, a word is an integer: category i has
\* the leaf name i, every category lies in the group 0, -1 is the ' > ' of
\* full_name and -2 the '\' of moneymoney_path; names are stored
\* capitalised, and w <= -10 is the capitalised spelling of the word -10 - w.
NumParseCats == NUM_SUGGESTIONS + 1

Cap(w) == (0 - 10) - w

\* str.lower(), word by word
lower(str) ==
    [k \in 1 .. Len(str) |-> IF str[k] <= 0 - 10 THEN (0 - 10) - str[k]
                                                  ELSE str[k]]

\* Python's `sub in str`
Contains(sub, str) ==
    /\ Len(sub) <= Len(str)
    /\ \E k \in 0 .. Len(str) - Len(sub) :
          SubSeq(str, k + 1, k + Len(sub)) = sub

\* one flattened leaf category; the uuid of category i is i
CategoryRecord(i) ==
    [uuid |-> i,
     full_name |-> <<Cap(0), 0 - 1, Cap(i)>>,
     moneymoney_path |-> <<Cap(0), 0 - 2, Cap(i)>>]

\* the `categories` argument
CategoryList == [i \in 1 .. NumParseCats |-> CategoryRecord(i)]

\* the first of a set of list positions, 0 when there is none
FirstWhere(positions) ==
    IF positions = {} THEN 0
    ELSE CHOOSE i \in positions : \A j \in positions : i <= j

\* a lookup in three passes: uuid equality over the whole list, then
\* full_name equality, then moneymoney_path equality, then containment
find_category_uuid_first(categories, path, uuid) ==
    LET u == FirstWhere({i \in DOMAIN categories :
                            categories[i].uuid = uuid})
        f == FirstWhere({i \in DOMAIN categories :
                            categories[i].full_name = path})
        m == FirstWhere({i \in DOMAIN categories :
                            categories[i].moneymoney_path = path})
        q == FirstWhere({i \in DOMAIN categories :
                            \/ Contains(lower(path),
                                        lower(categories[i].full_name))
                            \/ Contains(lower(path),
                                        lower(categories[i].moneymoney_path))})
    IN  IF u # 0 THEN Some(categories[u])
        ELSE IF f # 0 THEN Some(categories[f])
        ELSE IF m # 0 THEN Some(categories[m])
        ELSE IF q # 0 THEN Some(categories[q])
        ELSE None

\* a lookup that answers with the first category when nothing matches
find_category_or_first(categories, path, uuid) ==
    LET e == FirstWhere({i \in DOMAIN categories :
                            \/ categories[i].uuid = uuid
                            \/ categories[i].full_name = path
                            \/ categories[i].moneymoney_path = path})
    IN  IF e # 0 THEN Some(categories[e])
        ELSE IF categories # <<>> THEN Some(categories[1])
        ELSE None

\* _find_category_by_path_or_uuid: the first category with an exact match
\* on uuid, full_name or moneymoney_path, else the first whose lower-cased
\* full_name or moneymoney_path contains the lower-cased path, else None
_find_category_by_path_or_uuid(categories, path, uuid) ==
    LET e == FirstWhere({i \in DOMAIN categories :
                            \/ categories[i].uuid = uuid
                            \/ categories[i].full_name = path
                            \/ categories[i].moneymoney_path = path})
        q == FirstWhere({i \in DOMAIN categories :
                            \/ Contains(lower(path),
                                        lower(categories[i].full_name))
                            \/ Contains(lower(path),
                                        lower(categories[i].moneymoney_path))})
    IN  IF e # 0 THEN Some(categories[e])
        ELSE IF q # 0 THEN Some(categories[q])
        ELSE None

\* a bug: seen_uuids is never consulted
AlreadySeenNever(uuid, seen_uuids) == FALSE


\* `matching_category['uuid'] not in seen_uuids`, negated
AlreadySeen(uuid, seen_uuids) == uuid \in seen_uuids

\* the for loop of _parse_suggestions from position i on
RECURSIVE ValidateFrom(_, _, _, _, _)
ValidateFrom(suggs, categories, i, validated_suggestions, seen_uuids) ==
    IF i > Len(suggs) THEN validated_suggestions
    ELSE LET matching_category ==
                 _find_category_by_path_or_uuid(categories,
                                                suggs[i].category_path,
                                                suggs[i].uuid)
         IN  IF /\ matching_category # None
                /\ ~AlreadySeen(matching_category[1].uuid, seen_uuids)
             THEN ValidateFrom(suggs, categories, i + 1,
                     Append(validated_suggestions,
                            [category |-> matching_category[1],
                             confidence |-> suggs[i].confidence]),
                     seen_uuids \cup {matching_category[1].uuid})
             ELSE ValidateFrom(suggs, categories, i + 1,
                               validated_suggestions, seen_uuids)

\* _parse_suggestions: a response that is no JSON gives []; confidence
\* stands for the pair (confidence, reasoning), which is copied together
_parse_suggestions(llm_response, categories) ==
    IF llm_response.kind = "invalid_json" THEN <<>>
    ELSE ValidateFrom(llm_response.suggestions, categories, 1, <<>>, {})

\* list[:n] for n >= 0
Slice(list, n) == SubSeq(list, 1, IF Len(list) < n THEN Len(list) ELSE n)

\* the classes `except Exception` catches among those a call can raise:
\* requests' ConnectionError, Timeout and HTTPError, the KeyError of a
\* reply without 'choices', the ValueError of a reply that is no JSON and
\* the AttributeError of a payload of the wrong shape; KeyboardInterrupt
\* derives from BaseException only
ExceptionClasses ==
    {"ConnectionError", "Timeout", "HTTPError", "KeyError", "ValueError",
     "AttributeError"}

\* a narrower handler: except requests.exceptions.RequestException
IsRequestException(e) == e \in {"ConnectionError", "Timeout", "HTTPError"}

\* except Exception
IsException(e) == e \in ExceptionClasses

\* the exception that leaves a method whose body is try/except Exception
Propagated(e) == IF e = "none" \/ IsException(e) THEN "none" ELSE e

\* a bug: the model's list is cut before it is validated
categorize_transaction_cut_first(llm_response, categories) ==
    IF llm_response.exception # "none" THEN <<>>
    ELSE _parse_suggestions(
            [llm_response EXCEPT
                !.suggestions = Slice(@, NUM_SUGGESTIONS)],
            categories)


\* categorize_transaction: [] when _call_llm or _parse_suggestions raised
\* (no value at all when the exception is not caught)
categorize_transaction(llm_response, categories) ==
    IF llm_response.exception # "none" THEN <<>>
    ELSE Slice(_parse_suggestions(llm_response, categories), NUM_SUGGESTIONS)

\* _parse_rule_response: the rule of a JSON object that carries 'rule',
\* 'explanation' and a numeric 'confidence'; None for a text that is no
\* JSON, for JSON of another shape and for an object without the fields
_parse_rule_response(llm_response) ==
    IF llm_response.kind = "rule" THEN Some(llm_response.rule) ELSE None

\* generate_categorization_rule: None when _call_llm raised
generate_categorization_rule(llm_response) ==
    IF llm_response.exception # "none" THEN None
    ELSE _parse_rule_response(llm_response)

\* how the model can name a category: by an empty path (contained in
\* every name), by the lower-case leaf name of category 2, by a word no
\* category carries, by a uuid next to a path that names another category
\* or none; uuid 0 is a missing or empty uuid
ParseRefs ==
    {[category_path |-> <<>>, uuid |-> 0],
     [category_path |-> <<2>>, uuid |-> 0],
     [category_path |-> <<NumParseCats + 1>>, uuid |-> 0],
     [category_path |-> <<2>>, uuid |-> 1],
     [category_path |-> <<NumParseCats + 1>>, uuid |-> 2]}
        \cup {[category_path |-> <<>>, uuid |-> u] : u \in 3 .. NumParseCats}

\* one element of data['suggestions']
ParseItems ==
    {[category_path |-> r.category_path, uuid |-> r.uuid, confidence |-> c] :
        r \in ParseRefs, c \in {1, 2}}

\* the model was asked for NUM_SUGGESTIONS suggestions and may send more
MaxBatch == NUM_SUGGESTIONS + 1

Batches == UNION {[1 .. n -> ParseItems] : n \in 0 .. MaxBatch}

\* what _call_llm can raise: the failures of the request and of reading
\* the reply, and the interrupt key pressed while the request is waiting
CallExceptions ==
    {"ConnectionError", "Timeout", "HTTPError", "KeyError", "ValueError",
     "KeyboardInterrupt"}

\* the outcome of _call_llm for categorize_transaction: it raised, or its
\* text is no JSON (caught inside _parse_suggestions), or it is JSON of the
\* wrong shape (data.get or suggestion.get raises AttributeError), or it is
\* a JSON object with a 'suggestions' list; exception is what reaches the
\* handler of categorize_transaction
Responses ==
    {[kind |-> "raise", suggestions |-> <<>>, rule |-> 0, exception |-> e] :
        e \in CallExceptions}
        \cup {[kind |-> "invalid_json", suggestions |-> <<>>, rule |-> 0,
                exception |-> "none"],
               [kind |-> "malformed", suggestions |-> <<>>, rule |-> 0,
                exception |-> "AttributeError"]}
        \cup {[kind |-> "json", suggestions |-> b, rule |-> 0,
                exception |-> "none"] : b \in Batches}

\* the rules a model can propose
Rules == 1 .. 2

\* the outcome of _call_llm for generate_categorization_rule; what
\* _parse_rule_response raises it catches itself
RuleResponses ==
    {[kind |-> "raise", suggestions |-> <<>>, rule |-> 0, exception |-> e] :
        e \in CallExceptions}
        \cup {[kind |-> k, suggestions |-> <<>>, rule |-> 0,
                exception |-> "none"] :
                    k \in {"invalid_json", "malformed", "missing_fields"}}
        \cup {[kind |-> "rule", suggestions |-> <<>>, rule |-> r,
                exception |-> "none"] : r \in Rules}

\* what a call of categorize_transaction leaves alone
OnlyLlm ==
    UNCHANGED <<flags, category, stats, pc, transactions, idx, suggestions,
                llmCalls, llmRaised, lastChoice, applied, reviewEntry,
                prompts, outcome, summary, exitCode, hist, matches, keylog,
                cache, file, cache_type, last, writable, startup, money,
                search>>

\* an LLMClient about to receive a response
InitParse ==
    /\ mode = "none"
    /\ test_mode = FALSE
    /\ dry_run = FALSE
    /\ fzf_available = FALSE
    /\ writable = TRUE
    /\ file = File("missing", EmptyCache)
    /\ cache = EmptyCache
    /\ cache_type = "dict"
    /\ cachePrev = cache
    /\ last = NoCall
    /\ llm \in {[pc |-> "call", op |-> "categorize", response |-> r,
                 validated |-> <<>>, returned |-> <<>>, rule |-> None,
                 raised |-> "none"] : r \in Responses}
            \cup {[pc |-> "call", op |-> "rule", response |-> r,
                    validated |-> <<>>, returned |-> <<>>, rule |-> None,
                    raised |-> "none"] : r \in RuleResponses}
    /\ money = NoMoney
    /\ search = NoSearch
    /\ args = NoArgs
    /\ Idle

\* categorize_transaction(transaction, CategoryList) runs to its return
CategorizeTransaction ==
    /\ llm.pc = "call"
    /\ llm.op = "categorize"
    /\ llm' = [llm EXCEPT
                 !.pc = "returned",
                 !.validated =
                     IF llm.response.exception # "none" THEN <<>>
                     ELSE _parse_suggestions(llm.response, CategoryList),
                 !.returned =
                     categorize_transaction(llm.response, CategoryList),
                 !.raised = Propagated(llm.response.exception)]
    /\ OnlyLlm

\* generate_categorization_rule(transaction, category) runs to its return
GenerateCategorizationRule ==
    /\ llm.pc = "call"
    /\ llm.op = "rule"
    /\ llm' = [llm EXCEPT
                 !.pc = "returned",
                 !.rule = generate_categorization_rule(llm.response),
                 !.raised = Propagated(llm.response.exception)]
    /\ OnlyLlm

NextParse == CategorizeTransaction \/ GenerateCategorizationRule

SpecParse == InitParse /\ [][NextParse]_vars

\* ------------------------------ _find_category_by_path_or_uuid alone
\* the orders MoneyMoney can list the categories in
CategoryOrders ==
    {p \in [1 .. NumParseCats -> 1 .. NumParseCats] :
        \A i, j \in 1 .. NumParseCats : i # j => p[i] # p[j]}

CategoryLists ==
    {[k \in 1 .. NumParseCats |-> CategoryRecord(p[k])] : p \in CategoryOrders}

\* the paths a suggestion can carry: a category's full_name or
\* moneymoney_path, the empty path, a lower-case leaf name, an unknown word
LookupPaths ==
    {CategoryRecord(i).full_name : i \in 1 .. NumParseCats}
        \cup {CategoryRecord(i).moneymoney_path : i \in 1 .. NumParseCats}
        \cup {<<>>, <<2>>, <<NumParseCats + 1>>}

\* the uuids a suggestion can carry: none (0), a category's, an unknown one
LookupUuids == 0 .. NumParseCats + 1

\* an LLMClient about to look a suggestion up
InitLookup ==
    /\ mode = "none"
    /\ test_mode = FALSE
    /\ dry_run = FALSE
    /\ fzf_available = FALSE
    /\ writable = TRUE
    /\ file = File("missing", EmptyCache)
    /\ cache = EmptyCache
    /\ cache_type = "dict"
    /\ cachePrev = cache
    /\ last = NoCall
    /\ llm \in {[pc |-> "call", op |-> "lookup", categories |-> l,
                 path |-> q, uuid |-> u, result |-> None] :
                    l \in CategoryLists, q \in LookupPaths, u \in LookupUuids}
    /\ money = NoMoney
    /\ search = NoSearch
    /\ args = NoArgs
    /\ Idle

\* _find_category_by_path_or_uuid(categories, path, uuid) runs to its return
FindCategory ==
    /\ llm.pc = "call"
    /\ llm.op = "lookup"
    /\ llm' = [llm EXCEPT
                 !.pc = "returned",
                 !.result = _find_category_by_path_or_uuid(
                                llm.categories, llm.path, llm.uuid)]
    /\ OnlyLlm

NextLookup == FindCategory

SpecLookup == InitLookup /\ [][NextLookup]_vars

\* ------------------------------------- _find_matching_categories alone
\* Config.MAX_SEARCH_RESULTS: 10 in config.py, read at each call; the
\* repository's test sets it to 2
MAX_SEARCH_RESULTS == 2

\* the longest category list searched
MaxSearchCats == MAX_SEARCH_RESULTS + 2

\* what fuzz.partial_ratio can give: only the order of the scores matters
Scores == 1 .. 2

\* self.categories as the search sees it: for each category its position,
\* whether its lower-cased name or full_name contains the lower-cased
\* query, and the higher of its two partial_ratio scores
SearchedLists ==
    UNION {{[i \in 1 .. n |-> [id |-> i, hit |-> f[i][1], score |-> f[i][2]]] :
                f \in [1 .. n -> BOOLEAN \X Scores]} :
            n \in 0 .. MaxSearchCats}

\* the for loop: the categories that contain the query, in list order
RECURSIVE Matching(_)
Matching(list) ==
    IF list = <<>> THEN <<>>
    ELSE IF Head(list).hit THEN <<Head(list)>> \o Matching(Tail(list))
    ELSE Matching(Tail(list))

\* x put into a list in descending score order, behind the elements of
\* its own score
RECURSIVE InsertByScore(_, _)
InsertByScore(x, sorted) ==
    IF sorted = <<>> THEN <<x>>
    ELSE IF Head(sorted).score >= x.score
    THEN <<Head(sorted)>> \o InsertByScore(x, Tail(sorted))
    ELSE <<x>> \o sorted

\* matches.sort(key=score, reverse=True): descending, and stable, so that
\* elements of equal score keep the order they were appended in
RECURSIVE SortByScore(_, _)
SortByScore(list, sorted) ==
    IF list = <<>> THEN sorted
    ELSE SortByScore(Tail(list), InsertByScore(Head(list), sorted))

\* a search that forgets to sort: filter, cut
find_matching_unsorted(categories) ==
    Slice(Matching(categories), MAX_SEARCH_RESULTS)

\* _find_matching_categories: filter, sort, cut
_find_matching_categories(categories) ==
    Slice(SortByScore(Matching(categories), <<>>), MAX_SEARCH_RESULTS)

\* what a call of _find_matching_categories leaves alone
OnlySearch ==
    UNCHANGED <<flags, category, stats, pc, transactions, idx, suggestions,
                llmCalls, llmRaised, lastChoice, applied, reviewEntry,
                prompts, outcome, summary, exitCode, hist, matches, keylog,
                cache, file, cache_type, last, writable, llm, startup, money>>

\* a CategorySelector constructed on a category list, about to search
InitSearch ==
    /\ mode = "none"
    /\ test_mode = FALSE
    /\ dry_run = FALSE
    /\ fzf_available = FALSE
    /\ writable = TRUE
    /\ file = File("missing", EmptyCache)
    /\ cache = EmptyCache
    /\ cache_type = "dict"
    /\ cachePrev = cache
    /\ last = NoCall
    /\ llm = NoLlm
    /\ money = NoMoney
    /\ search \in {[pc |-> "call", categories |-> l, result |-> <<>>] :
                    l \in SearchedLists}
    /\ args = NoArgs
    /\ Idle

\* _find_matching_categories(query) runs to its return
FindMatchingCategories ==
    /\ search.pc = "call"
    /\ search' = [search EXCEPT
                    !.pc = "returned",
                    !.result = _find_matching_categories(search.categories)]
    /\ OnlySearch

NextSearch == FindMatchingCategories

SpecSearch == InitSearch /\ [][NextSearch]_vars

\* ------------------------------------------- the numbered lists alone
\* Config.MAX_SEARCH_RESULTS as shipped: the longest list
\* _find_matching_categories hands to _display_search_results
ListedMax == 10

\* what _getch() can return: one decimal digit, one of the letters with a
\* meaning at some prompt, "x" for every other character
Characters ==
    {ToString(d) : d \in DecimalDigits} \cup {"b", "r", "q", "n", "s", "x"}

\* the numbered lists: the suggestions of a review, at most
\* NUM_SUGGESTIONS of them, and the categories of a result list, at least
\* one and at most Config.MAX_SEARCH_RESULTS; item i is category i
NumberedLists ==
    {[prompt |-> "review", listed |-> [i \in 1 .. n |-> i]] :
        n \in 0 .. NUM_SUGGESTIONS}
    \cup {[prompt |-> "results", listed |-> [i \in 1 .. n |-> i]] :
            n \in 1 .. ListedMax}

\* _display_search_results(matches) for one character: None for 'b',
\* {'action': 'back'} for 'r', the category for a digit inside the list,
\* another pass of its loop for everything else
_display_search_results(key, listed) ==
    CASE key = "b" -> {Choice("none", 0)}
      [] key = "r" -> {Choice("back", 0)}
      [] IsDigit(key) -> Select(key, listed)
      [] OTHER -> {Choice("reprompt", 0)}

\* a CategorySelector showing a numbered list, a character about to be
\* read
InitSelect ==
    /\ mode = "none"
    /\ test_mode = FALSE
    /\ dry_run = FALSE
    /\ fzf_available \in BOOLEAN
    /\ writable = TRUE
    /\ file = File("missing", EmptyCache)
    /\ cache = EmptyCache
    /\ cache_type = "dict"
    /\ cachePrev = cache
    /\ last = NoCall
    /\ llm = NoLlm
    /\ money = NoMoney
    /\ search \in {[pc |-> "listed", prompt |-> l.prompt, listed |-> l.listed,
                    key |-> k, result |-> Choice("none", 0)] :
                       l \in NumberedLists, k \in Characters}
    /\ args = NoArgs
    /\ Idle

\* get_user_choice(suggestions) reads one character at the review prompt
ReviewCharacter ==
    /\ search.pc = "listed"
    /\ search.prompt = "review"
    /\ \E choice \in get_user_choice(test_mode, search.key,
                                     Some(search.listed)) :
          search' = [search EXCEPT !.pc = "read", !.result = choice]
    /\ OnlySearch

\* _display_search_results(matches) reads one character
ResultCharacter ==
    /\ search.pc = "listed"
    /\ search.prompt = "results"
    /\ \E choice \in _display_search_results(search.key, search.listed) :
          search' = [search EXCEPT !.pc = "read", !.result = choice]
    /\ OnlySearch

NextSelect ==
    \/ ReviewCharacter
    \/ ResultCharacter

SpecSelect == InitSelect /\ [][NextSelect]_vars

\* -------------------------------- get_uncategorized_transactions alone
\* the longest export MoneyMoney answers with
MaxExported == 2

\* one exported transaction: its position in the export, its 'category'
\* (key missing, '', whitespace only, a category path), its 'booked' flag
\* (key missing, True, False, a value that is neither) and whether it
\* carries a 'bookingDate'
ExportedTransactions(i) ==
    [id : {i}, category : {"missing", "empty", "blank", "set"},
     booked : {"missing", "True", "False", "other"}, bookingDate : BOOLEAN]

\* the transactions of an export of n transactions
Exports ==
    UNION {{e \in [1 .. n -> UNION {ExportedTransactions(i) : i \in 1 .. n}] :
                \A i \in 1 .. n : e[i].id = i} :
            n \in 0 .. MaxExported}

\* `not category or category.strip() == ''` on transaction.get('category', '')
IsUncategorized(tx) ==
    \/ tx.category \in {"missing", "empty"}
    \/ tx.category = "blank"

\* a check that looks at the booking date first
is_booked_date_first(tx) ==
    IF tx.bookingDate THEN TRUE
    ELSE tx.booked \notin {"missing", "False"}

\* _is_transaction_booked
_is_transaction_booked(tx) ==
    IF tx.booked = "False" THEN FALSE
    ELSE IF tx.booked = "True" THEN TRUE
    ELSE IF tx.bookingDate THEN TRUE
    ELSE IF tx.booked = "missing" THEN FALSE
    ELSE TRUE

\* get_uncategorized_transactions on the parsed plist: a dict with
\* 'transactions' or a list is filtered, anything else gives []
get_uncategorized_transactions(plist, exclude_pending) ==
    IF plist.format \notin {"dict", "list"} THEN <<>>
    ELSE LET uncategorized ==
                 SelectSeq(plist.transactions, LAMBDA tx : IsUncategorized(tx))
         IN  IF exclude_pending
             THEN SelectSeq(uncategorized,
                            LAMBDA tx : _is_transaction_booked(tx))
             ELSE uncategorized

\* what a call into the MoneyMoneyClient's export leaves alone
OnlyMoney ==
    UNCHANGED <<flags, category, stats, pc, transactions, idx, suggestions,
                llmCalls, llmRaised, lastChoice, applied, reviewEntry,
                prompts, outcome, summary, exitCode, hist, matches, keylog,
                cache, file, cache_type, last, writable, llm, startup,
                search>>

\* a MoneyMoneyClient whose AppleScript returned an export, with
\* Config.EXCLUDE_PENDING_TRANSACTIONS on or off
InitFetch ==
    /\ mode = "none"
    /\ test_mode = FALSE
    /\ dry_run = FALSE
    /\ fzf_available = FALSE
    /\ writable = TRUE
    /\ file = File("missing", EmptyCache)
    /\ cache = EmptyCache
    /\ cache_type = "dict"
    /\ cachePrev = cache
    /\ last = NoCall
    /\ llm = NoLlm
    /\ money \in {[op |-> "fetch", pc |-> "call",
                   plist |-> [format |-> f, transactions |-> e],
                   exclude_pending |-> x, result |-> <<>>] :
                      f \in {"dict", "list", "other"}, e \in Exports,
                      x \in BOOLEAN}
    /\ search = NoSearch
    /\ args = NoArgs
    /\ Idle

\* get_uncategorized_transactions(from_date, to_date) runs to its return
GetUncategorizedTransactions ==
    /\ money.op = "fetch"
    /\ money.pc = "call"
    /\ money' = [money EXCEPT
                   !.pc = "returned",
                   !.result = get_uncategorized_transactions(
                                  money.plist, money.exclude_pending)]
    /\ OnlyMoney

NextFetch == GetUncategorizedTransactions

SpecFetch == InitFetch /\ [][NextFetch]_vars

\* --------------------------------------- _apply_categorization alone
\* what a call of _apply_categorization leaves alone
OnlyApply ==
    UNCHANGED <<flags, stats, pc, transactions, idx, suggestions, llmCalls,
                llmRaised, lastChoice, reviewEntry, prompts, outcome,
                summary, exitCode, hist, matches, keylog, cache, file,
                cache_type, last, writable, llm, startup, search>>

\* a TransactionCategorizer whose categories are loaded, before any call
InitApply ==
    /\ mode = "none"
    /\ test_mode = FALSE
    /\ dry_run \in BOOLEAN
    /\ fzf_available = FALSE
    /\ writable = TRUE
    /\ file = File("missing", EmptyCache)
    /\ cache = EmptyCache
    /\ cache_type = "dict"
    /\ cachePrev = cache
    /\ last = NoCall
    /\ llm = NoLlm
    /\ money = NoMoney
    /\ search = NoSearch
    /\ args = NoArgs
    /\ Idle

\* category_path = category['full_name']
category_path(cat) == cat.full_name

\* _apply_categorization(transaction t, CategoryRecord(c)): no id gives
\* False, a dry run gives True, both without a call; otherwise
\* set_transaction_category(transaction_id, category_path) is called and
\* its result returned
ApplyCategorization ==
    \E t \in Tx, c \in Categories :
        /\ IF ~Truthy(TxId(t))
           THEN /\ money' = [op |-> "noid", id |-> TxId(t), category |-> c,
                             path |-> <<>>, result |-> FALSE]
                /\ UNCHANGED <<category, applied>>
           ELSE IF dry_run
           THEN /\ money' = [op |-> "dry", id |-> TxId(t), category |-> c,
                             path |-> <<>>, result |-> TRUE]
                /\ applied' = [applied EXCEPT ![t] = "dry"]
                /\ UNCHANGED category
           ELSE \E ok \in BOOLEAN :
                /\ money' = [op |-> "set", id |-> TxId(t), category |-> c,
                             path |-> category_path(CategoryRecord(c)),
                             result |-> ok]
                /\ applied' = [applied EXCEPT
                                  ![t] = IF ok THEN "ok" ELSE "failed"]
                /\ category' = IF ok THEN [category EXCEPT ![t] = c]
                               ELSE category
        /\ OnlyApply

NextApply == ApplyCategorization

SpecApply == InitApply /\ [][NextApply]_vars

\* ------------------------------------------------------------ claims
AllTx == [t \in Tx |-> t]

CachedKey(c, t) == Key(TxId(t)) \in DOMAIN c

\* the review of t has begun in the current review loop
ReviewStarted(t) ==
    \/ outcome[t] # "none"
    \/ /\ pc \in {"prompt", "rule_offer", "rule_proposal", "exited"}
       /\ transactions[idx] = t

\* C1: in cached review (apply-only, combined phase 2), once the review of
\* a transaction ended with a successful categorization or an explicit
\* skip, the cache holds no entry for its id.
C1_EvictionInvariant ==
    UsesCache(mode) =>
        \A t \in Tx : outcome[t] \in {"categorized", "skipped"}
                        => ~CachedKey(cache, t)

C1_Witness ==
    /\ UsesCache(mode)
    /\ \E t1, t2 \in Tx :
         /\ outcome[t1] = "categorized" /\ reviewEntry[t1] # None
         /\ outcome[t2] = "skipped" /\ reviewEntry[t2] # None

\* C2: when the cached review of a transaction ended with an exception, or
\* set_transaction_category returned false for it, its cache entry is the
\* one the review found.
C2_ErrorKeepsEntry ==
    UsesCache(mode) =>
        \A t \in Tx : (outcome[t] = "error" \/ applied[t] = "failed")
                        => get_suggestions(cache, TxId(t)) = reviewEntry[t]

C2_Witness ==
    /\ UsesCache(mode)
    /\ pc = "done"
    /\ \E t1, t2 \in Tx :
         /\ outcome[t1] = "error" /\ CachedKey(cache, t1)
         /\ applied[t2] = "failed" /\ reviewEntry[t2] # None
         /\ CachedKey(cache, t2)

\* C3: an exception raised for the transaction at position i never stops
\* the loop: the loop has moved past i, or it ended the way it ends after
\* any other outcome (last element, or the break of test mode) and run()
\* printed its summary; sys.exit(1) happens in test mode only.
C3_FailureDoesNotAbort ==
    /\ exitCode = 1 => test_mode
    /\ \A i \in 1 .. Len(transactions) :
         /\ outcome[transactions[i]] = "error"
              => \/ idx > i
                 \/ /\ pc = "done" /\ summary
                    /\ (i = Len(transactions) \/ test_mode)
         /\ (transactions[i] \in llmRaised /\ pc = "phase1") => idx > i
         /\ (transactions[i] \in llmRaised /\ mode = "prerun")
              => (pc = "phase1" \/ (pc = "done" /\ summary))

C3_Witness ==
    /\ mode = "combined" /\ ~test_mode
    /\ pc = "done" /\ summary
    /\ \E i, j \in 1 .. Len(transactions) :
         /\ i < Len(transactions)
         /\ outcome[transactions[i]] = "error"
         /\ outcome[transactions[i + 1]] \in {"categorized", "skipped"}
         /\ transactions[j] \in llmRaised
         /\ outcome[transactions[j]] # "none"

\* C4: every exception of the suggestion source is counted in the error
\* tally: a run in which the source raised for exactly one transaction and
\* nothing else failed ends with stats['errors'] = 1.
C4_ErrorIsolation ==
    ( /\ pc = "done" /\ summary
      /\ Cardinality(llmRaised) = 1
      /\ \A t \in Tx : outcome[t] = "error" => t \in llmRaised )
    => stats.errors = 1

\* the second of two pre-run-only runs has ended, over the same list
SecondPreRunEnded ==
    /\ run >= 2 /\ pc = "done"
    /\ transactions # <<>> /\ transactions = fetchedPrev

\* C5 as stated: after the second pre-run-only run over the same fetched
\* list the cache is identical to the cache after the first, and the
\* second run called the suggestion source for no id cached before it.
C5_PreRunIdempotent ==
    SecondPreRunEnded =>
        /\ cache = cachePrev
        /\ \A t \in llmCalls : ~CachedKey(cachePrev, t)

\* C5 as amended: a later pre-run-only run calls the suggestion source for
\* no id that was cached before it and keeps every entry it found; its
\* cache is identical to the previous one when every fetched transaction
\* with a truthy id was cached already; ids left uncached are asked again.
C5_PreRunKeepsCached ==
    run >= 2 =>
        /\ \A t \in llmCalls : ~CachedKey(cachePrev, t)
        /\ \A k \in DOMAIN cachePrev :
              k \in DOMAIN cache /\ cache[k] = cachePrev[k]
        /\ ( /\ SecondPreRunEnded
             /\ \A i \in 1 .. Len(transactions) :
                  Truthy(TxId(transactions[i]))
                     => CachedKey(cachePrev, transactions[i]) )
           => (cache = cachePrev /\ llmCalls = {})
        /\ ( /\ pc = "done" /\ transactions # <<>> )
           => \A i \in 1 .. Len(transactions) :
                 ( /\ Truthy(TxId(transactions[i]))
                   /\ ~CachedKey(cachePrev, transactions[i]) )
                 => transactions[i] \in llmCalls

C5_Witness ==
    /\ SecondPreRunEnded
    /\ llmCalls = {}
    /\ cache = cachePrev
    /\ \E t \in Tx : Truthy(TxId(t)) /\ CachedKey(cachePrev, t)
    /\ \A t \in Tx : Truthy(TxId(t)) => CachedKey(cachePrev, t)

\* C6: in apply-only mode the list under review is the fetched list
\* filtered, in order, to the transactions whose str(id) is a key of the
\* cache; nothing else is ever reviewed.
C6_ApplyOnlyWorkingSet ==
    mode = "apply" =>
        /\ transactions # <<>>
              => transactions
                   = SelectSeq(AllTx, LAMBDA t : CachedKey(cachePrev, t))
        /\ \A t \in Tx :
              (ReviewStarted(t) \/ t \in prompts \/ reviewEntry[t] # None)
                 => CachedKey(cachePrev, t)

C6_Witness ==
    /\ mode = "apply" /\ pc = "done"
    /\ Key(NumTx) \in DOMAIN cachePrev
    /\ \E t1, t2 \in Tx :
         /\ outcome[t1] # "none" /\ t1 \in prompts
         /\ Truthy(TxId(t2)) /\ ~CachedKey(cachePrev, t2)
         /\ outcome[t2] = "none"

\* C7: apply-only with an empty cache, or with no cached id among the
\* fetched transactions, returns normally: no prompt, no category applied,
\* cache unchanged, all four tallies 0.
C7_ApplyOnlyNoMatch ==
    ( /\ mode = "apply" /\ pc # "idle"
      /\ \A t \in Tx : ~CachedKey(cachePrev, t) )
    => /\ pc = "done" /\ exitCode = -1
       /\ prompts = {}
       /\ \A t \in Tx : applied[t] = "none" /\ outcome[t] = "none"
       /\ category = [t \in Tx |-> 0]
       /\ cache = cachePrev
       /\ stats = ZeroStats

C7_Witness ==
    /\ mode = "apply" /\ pc = "done" /\ summary
    /\ DOMAIN cachePrev = {Key(NumTx)}
    /\ cache = cachePrev

\* C8: in combined mode nothing is reviewed while phase 1 runs, and once
\* phase 1 is over the suggestion source is not called for a
\* categorization and no cache entry is stored.
C8_PhaseOrdering ==
    /\ [](mode = "combined" /\ pc = "phase1"
            => /\ prompts = {} /\ outcome = NoOutcome
               /\ stats.processed = 0)
    /\ [][ (mode = "combined" /\ pc \notin {"idle", "phase1"})
            => /\ llmCalls' = llmCalls
               /\ \A k \in DOMAIN cache' :
                     k \in DOMAIN cache /\ cache'[k] = cache[k] ]_vars

C8_Witness ==
    /\ mode = "combined" /\ pc = "prompt"
    /\ llmCalls # {}
    /\ DOMAIN cache # DOMAIN cachePrev
    /\ idx > 1

\* C9: combined mode outside test mode: a transaction (with an id) that
\* has no cached suggestions when phase 2 reaches it is prompted for with
\* an empty suggestion set; that is never an error and never exits 1.
C9_NoSuggestionsStillReviewed ==
    (mode = "combined" /\ ~test_mode) =>
        /\ exitCode # 1
        /\ \A t \in Tx :
              ( /\ Truthy(TxId(t)) /\ ReviewStarted(t)
                /\ pc # "phase1"
                /\ Falsy(reviewEntry[t]) )
              => /\ t \in prompts
                 /\ outcome[t] # "error"
                 /\ (pc = "prompt" /\ transactions[idx] = t)
                       => Falsy(suggestions)

C9_Witness ==
    /\ mode = "combined" /\ ~test_mode /\ pc = "done" /\ summary
    /\ \E t1, t2 \in Tx :
         /\ t1 < t2
         /\ t1 \in llmRaised /\ t1 \in prompts
         /\ reviewEntry[t1] = None
         /\ t2 \in llmCalls \ llmRaised /\ t2 \in prompts
         /\ reviewEntry[t2] = None

\* C10: q at the review prompt ends the run at once with sys.exit(0):
\* nothing applied, no cache entry removed, no tally or outcome recorded,
\* no summary; nothing happens after the exit.
C10_QuitHardStop ==
    /\ [][ (pc = "prompt" /\ lastChoice' = "quit")
            => /\ pc' = "exited" /\ exitCode' = 0
               /\ cache' = cache
               /\ category' = category /\ applied' = applied
               /\ outcome' = outcome /\ prompts' = prompts
               /\ stats' = stats
               /\ ~summary' ]_vars
    /\ [][pc # "exited"]_vars

C10_Witness ==
    /\ pc = "exited" /\ exitCode = 0 /\ lastChoice = "quit"
    /\ UsesCache(mode)
    /\ idx < Len(transactions)
    /\ CachedKey(cache, transactions[idx])
    /\ CachedKey(cache, transactions[idx + 1])
    /\ outcome[transactions[idx + 1]] = "none"

\* keys outside the alphabet of the review prompt showing sugg, of the
\* result list showing list, of the rule proposal
InvalidReviewKey(key, sugg) ==
    /\ key \notin {"none", "q", "n", "s"}
    /\ ~(/\ IsDigit(key) /\ sugg # None
         /\ DigitValue(key) \in 1 .. Len(sugg[1]))

InvalidResultKey(key, list) ==
    /\ key \notin {"none", "b", "r"}
    /\ ~(IsDigit(key) /\ DigitValue(key) \in 1 .. Len(list))

InvalidProposalKey(key) == key \notin {"none", "c", "d"}

\* the step decided nothing and changed nothing: same prompt, same
\* transaction, same cache and file, same tallies, nothing applied
Reprompted ==
    UNCHANGED <<pc, transactions, idx, suggestions, matches, cache, file,
                stats, category, applied, outcome, lastChoice, summary,
                exitCode, prompts, reviewEntry, llmCalls, llmRaised>>

\* C11: a key outside the alphabet of the review prompt (digit 0, a digit
\* beyond the list, any digit without suggestions, any other character),
\* of the result list or of the rule proposal returns no decision and
\* changes nothing: the same prompt is shown again for the same
\* transaction, with cache, file and tallies as they were.
C11_InvalidInputReprompts ==
    /\ [](\A key \in ReviewKeys :
           \A sugg \in {None} \cup {Some(l) : l \in LlmLists \cup FileLists} :
             InvalidReviewKey(key, sugg)
               => get_user_choice(FALSE, key, sugg) = {Choice("reprompt", 0)})
    /\ [][ ( /\ pc = "prompt"
             /\ InvalidReviewKey(keylog'.review, suggestions) )
           => Reprompted ]_vars
    /\ [][ ( /\ pc = "results"
             /\ InvalidResultKey(keylog'.results, matches) )
           => Reprompted ]_vars
    /\ [][ ( /\ pc = "rule_proposal"
             /\ InvalidProposalKey(keylog'.proposal) )
           => Reprompted ]_vars

C11_Witness ==
    /\ pc = "rule_proposal"
    /\ keylog.again = {"review", "results", "proposal"}
    /\ keylog.proposal = "x"
    /\ CachedKey(cache, transactions[idx])
    /\ stats.categorized = 0

C13_LoadDegrades ==
    /\ (last.op \in {"load", "store_load"} /\ file.kind # "object")
          => /\ ~last.raised
             /\ cache_type = "dict"
             /\ cache = EmptyCache
    /\ last.op = "store"
          => /\ ~last.raised
             /\ get_suggestions(cache, last.id) = Some(last.s)

\* C14: after a store_suggestions, a remove_suggestions of a present id or
\* a clear_cache whose save did not fail, the file holds the JSON object
\* of the whole in-memory mapping: same keys, each list as JSON writes it.
C14_WriteThrough ==
    (last.op \in {"store", "remove", "clear"} /\ last.saved = "yes")
        => /\ file = File("object", json_dump(cache))
           /\ DOMAIN file.data = DOMAIN cache

C14_Witness ==
    /\ last.op = "remove" /\ last.saved = "yes"
    /\ cache # EmptyCache
    /\ file = File("object", json_dump(cache))
    /\ ~has_suggestions(cache, last.id)

\* C15: when the save of store_suggestions, remove_suggestions or
\* clear_cache fails, the call raises nothing and the in-memory mapping
\* holds the result of the operation.
C15_SaveFailureSwallowed ==
    (last.op \in {"store", "remove", "clear"} /\ last.saved = "failed")
        => /\ ~last.raised
           /\ cache_type = "dict"
           /\ last.op = "store"
                => get_suggestions(cache, last.id) = Some(last.s)
           /\ last.op = "remove" => ~has_suggestions(cache, last.id)
           /\ last.op = "clear" => cache = EmptyCache

C15_Witness ==
    /\ last.op = "remove" /\ last.saved = "failed"
    /\ file.kind = "object"
    /\ Key(last.id) \in DOMAIN file.data
    /\ ~has_suggestions(cache, last.id)
    /\ cache # EmptyCache

InPhase1 ==
    \/ mode = "prerun" /\ pc \in {"phase1", "done"}
    \/ mode = "combined" /\ pc \in {"phase1", "press_enter"}

\* position of the transaction the pre-processing loop handled last
LastDone == IF pc = "phase1" THEN idx - 1 ELSE Len(transactions)

\* C17: while the pre-processing loop (pre-run-only, combined phase 1)
\* runs, every entry the run found is kept with its list; a new entry is
\* never an empty list and belongs to a transaction for which the source
\* returned; the source is asked exactly for the handled transactions with
\* an id and without an entry; the one handled last has an entry exactly
\* when the source returned a non-empty list for it, and that list is the
\* entry.
C17_Phase1OnlyAdds ==
    InPhase1 =>
        /\ \A k \in DOMAIN cachePrev :
              k \in DOMAIN cache /\ cache[k] = cachePrev[k]
        /\ \A k \in DOMAIN cache \ DOMAIN cachePrev :
              /\ cache[k] # <<>>
              /\ \E t \in llmCalls \ llmRaised : Key(TxId(t)) = k
        /\ \A i \in 1 .. LastDone :
              transactions[i] \in llmCalls
                 <=> /\ Truthy(TxId(transactions[i]))
                     /\ ~CachedKey(cachePrev, transactions[i])
        /\ \A t \in llmRaised : ~CachedKey(cache, t)
        /\ LastDone >= 1 =>
              LET t == transactions[LastDone] IN
              t \in llmCalls \ llmRaised
                 => /\ suggestions # None
                    /\ CachedKey(cache, t) <=> suggestions[1] # <<>>
                    /\ CachedKey(cache, t)
                          => cache[Key(TxId(t))] = suggestions[1]

C17_Witness ==
    /\ mode = "combined" /\ pc = "press_enter"
    /\ \E t1, t2 \in Tx :
         /\ t1 \in llmCalls \ llmRaised
         /\ CachedKey(cache, t1) /\ ~CachedKey(cachePrev, t1)
         /\ t2 \in llmCalls \ llmRaised
         /\ ~CachedKey(cache, t2)
    /\ cachePrev # EmptyCache

\* C18: a pre-run-only run shows no prompt, never calls
\* set_transaction_category, removes no cache entry and leaves the four
\* tallies at 0.
C18_PreRunNeverReviews ==
    mode = "prerun" =>
        /\ pc \in {"idle", "phase1", "done"}
        /\ prompts = {} /\ lastChoice = "none"
        /\ \A t \in Tx : /\ applied[t] = "none"
                         /\ outcome[t] = "none"
                         /\ reviewEntry[t] = None
        /\ category = [t \in Tx |-> 0]
        /\ DOMAIN cachePrev \subseteq DOMAIN cache
        /\ stats = ZeroStats
        /\ exitCode = -1

C18_Witness ==
    /\ mode = "prerun" /\ pc = "done" /\ summary
    /\ llmRaised # {}
    /\ llmCalls # llmRaised
    /\ cache # cachePrev
    /\ cachePrev # EmptyCache
\* the category the lookup resolves a suggestion to, None for none
Resolved(sugg) ==
    _find_category_by_path_or_uuid(CategoryList, sugg.category_path,
                                   sugg.uuid)

\* the positions of the response whose suggestion resolves to cat
PositionsOf(cat) ==
    {k \in 1 .. Len(llm.response.suggestions) :
        Resolved(llm.response.suggestions[k]) = Some(cat)}

FirstPosition(cat) ==
    CHOOSE k \in PositionsOf(cat) :
        \A j \in PositionsOf(cat) : k <= j

\* C19: the list _parse_suggestions returns has at most one entry per
\* category uuid, and the entry of a category carries the confidence (and
\* reasoning) of the first suggestion of the response that resolved to it.
C19_FirstPerCategory ==
    llm.pc = "returned" =>
        LET v == llm.validated IN
        /\ \A i, j \in DOMAIN v :
              v[i].category.uuid = v[j].category.uuid => i = j
        /\ \A i \in DOMAIN v :
              /\ PositionsOf(v[i].category) # {}
              /\ v[i].confidence
                   = llm.response.suggestions[
                        FirstPosition(v[i].category)].confidence

C19_Witness ==
    /\ llm.pc = "returned"
    /\ Len(llm.validated) = 2
    /\ \E i \in DOMAIN llm.validated :
          /\ Cardinality(PositionsOf(llm.validated[i].category)) = 2
          /\ \E k \in PositionsOf(llm.validated[i].category) :
                llm.response.suggestions[k].confidence
                    # llm.validated[i].confidence

\* the categories the response resolves to that come before cat
DistinctBefore(cat) ==
    {c \in {CategoryList[i] : i \in DOMAIN CategoryList} :
        /\ PositionsOf(c) # {}
        /\ FirstPosition(c) < FirstPosition(cat)}

\* C20: categorize_transaction returns at most NUM_SUGGESTIONS entries,
\* the first ones of the validated list in the order of the response: a
\* category is returned exactly when fewer than NUM_SUGGESTIONS other
\* categories were resolved before its first suggestion, so the cut comes
\* after the duplicates are gone; every category is one of the list
\* passed in.
C20_TruncatedPrefix ==
    llm.pc = "returned" =>
        LET r == llm.returned
            v == llm.validated
        IN
        /\ Len(r) <= NUM_SUGGESTIONS
        /\ Len(r) <= Len(v)
        /\ Len(r) < Len(v) => Len(r) = NUM_SUGGESTIONS
        /\ \A i \in DOMAIN r : r[i] = v[i]
        /\ \A i \in DOMAIN r :
              \E k \in DOMAIN CategoryList : r[i].category = CategoryList[k]
        /\ \A i, j \in DOMAIN r :
              i < j => FirstPosition(r[i].category)
                         < FirstPosition(r[j].category)
        /\ llm.response.kind = "json" =>
              \A k \in DOMAIN CategoryList :
                 (\E i \in DOMAIN r : r[i].category = CategoryList[k])
                    <=> /\ PositionsOf(CategoryList[k]) # {}
                        /\ Cardinality(DistinctBefore(CategoryList[k]))
                              < NUM_SUGGESTIONS

C20_Witness ==
    /\ llm.pc = "returned"
    /\ Len(llm.validated) = NUM_SUGGESTIONS + 1
    /\ Len(llm.returned) = NUM_SUGGESTIONS
    /\ llm.returned = SubSeq(llm.validated, 1, NUM_SUGGESTIONS)
    /\ llm.validated[1].category = CategoryList[NumParseCats]
\* the step applies a category chosen for the transaction under review,
\* which has an id
CategorizeStep ==
    /\ pc \in {"prompt", "results"}
    /\ lastChoice' = "categorize"
    /\ Truthy(TxId(transactions[idx]))

C26_DryRunKeepsCache ==
    (dry_run /\ UsesCache(mode))
        => \A t \in Tx :
              outcome[t] = "categorized"
                 => /\ CachedKey(cache, t)
                    /\ Key(TxId(t)) \in DOMAIN file.data

\* C27: when test_connection() is false or get_categories() returns no
\* category, run() returns at once: nothing fetched, no suggestion
\* requested, no prompt, cache, file and tallies as they were.
C27_StartupAbort ==
    (pc # "idle" /\ (~startup.connected \/ startup.categories = 0))
        => /\ pc = "done" /\ ~summary
           /\ startup.fetches = 0
           /\ transactions = <<>>
           /\ llmCalls = {} /\ prompts = {}
           /\ cache = cachePrev
           /\ file = File("object", cachePrev)
           /\ stats = ZeroStats
           /\ outcome = NoOutcome
           /\ \A t \in Tx : applied[t] = "none" /\ category[t] = 0
           /\ exitCode = -1

C27_Witness ==
    /\ pc = "done"
    /\ startup.connected /\ startup.categories = 0
    /\ startup.fetches = 0
    /\ mode = "combined"
    /\ cache # EmptyCache

\* C28: in test mode a review that finds no suggestions for its
\* transaction (an empty list returned, no cache entry, an empty entry)
\* ends the run with sys.exit(1): the prompt is never reached without
\* suggestions, and at the exit no choice was taken, nothing was applied
\* and no cache entry was removed.
C28_TestModeHardFailure ==
    /\ []( (test_mode /\ pc \in DialoguePcs) => ~Falsy(suggestions) )
    /\ []( (pc = "exited" /\ exitCode = 1)
             => /\ test_mode
                /\ lastChoice = "none"
                /\ prompts = {}
                /\ \A t \in Tx : applied[t] = "none" /\ category[t] = 0
                /\ \A k \in DOMAIN cachePrev : k \in DOMAIN cache
                /\ stats.categorized = 0 /\ stats.skipped = 0
                /\ ~summary )
    /\ []( \A t \in Tx :
             ( /\ test_mode /\ UsesCache(mode) /\ ReviewStarted(t)
               /\ Truthy(TxId(t)) /\ Falsy(reviewEntry[t]) )
                => pc = "exited" /\ exitCode = 1 )
    /\ [][ (test_mode /\ pc = "loop" /\ pc' \notin {"prompt", "exited"})
           => outcome'[transactions[idx]] \in {"noid", "error"} ]_vars

C28_Witness ==
    /\ test_mode /\ mode = "combined"
    /\ pc = "exited" /\ exitCode = 1
    /\ cache # cachePrev
    /\ stats.processed = 1
    /\ transactions[idx] \in llmCalls \ llmRaised

\* C21: when the request fails (connection error, timeout, HTTP error, a
\* reply without the expected keys) or the payload is malformed (no JSON,
\* JSON of the wrong shape, missing fields), no exception leaves
\* categorize_transaction or generate_categorization_rule: the first
\* returns [], the second None
C21_NeverRaisesPastBoundary ==
    (/\ llm.pc = "returned"
     /\ \/ llm.response.kind
              \in {"invalid_json", "malformed", "missing_fields"}
        \/ /\ llm.response.kind = "raise"
           /\ llm.response.exception \in ExceptionClasses)
        => /\ llm.raised = "none"
           /\ llm.op = "categorize" => llm.returned = <<>>
           /\ llm.op = "rule" => llm.rule = None

C21_Witness ==
    /\ llm.pc = "returned"
    /\ llm.op = "categorize"
    /\ llm.response.kind = "malformed"
    /\ llm.response.exception = "AttributeError"
    /\ llm.raised = "none"
    /\ llm.returned = <<>>

\* C29: whenever _apply_categorization calls set_transaction_category, the
\* path it passes is the chosen category's moneymoney_path (backslash
\* separated), not its full_name (' > ' separated)
C29_PassesMoneyMoneyPath ==
    money.op = "set" =>
        /\ money.path = CategoryRecord(money.category).moneymoney_path
        /\ money.path # CategoryRecord(money.category).full_name

\* category i of the looked-up list matches the suggestion exactly
C22_Exact(i) ==
    \/ llm.categories[i].uuid = llm.uuid
    \/ llm.categories[i].full_name = llm.path
    \/ llm.categories[i].moneymoney_path = llm.path

\* C22 as stated: when one category's uuid equals the given uuid and a
\* different category's full_name or moneymoney_path equals the given
\* path, the category with the matching uuid is returned, whatever the
\* order of the list
C22_UuidPreferred ==
    llm.pc = "returned" =>
        \A i, j \in DOMAIN llm.categories :
            (/\ i # j
             /\ llm.categories[i].uuid = llm.uuid
             /\ \/ llm.categories[j].full_name = llm.path
                \/ llm.categories[j].moneymoney_path = llm.path)
                => llm.result = Some(llm.categories[i])

\* C22 amended: the category returned for an exact match is the first one
\* in list order whose uuid equals the given uuid or whose full_name or
\* moneymoney_path equals the given path; of a category matching by uuid
\* and a different one matching by path, the earlier one is returned
C22_FirstExactMatch ==
    llm.pc = "returned" =>
        /\ \A i \in DOMAIN llm.categories :
              (C22_Exact(i) /\ \A j \in 1 .. i - 1 : ~C22_Exact(j))
                  => llm.result = Some(llm.categories[i])
        /\ \A i, j \in DOMAIN llm.categories :
              (/\ i < j
               /\ llm.categories[j].uuid = llm.uuid
               /\ \/ llm.categories[i].full_name = llm.path
                  \/ llm.categories[i].moneymoney_path = llm.path)
                  => llm.result # Some(llm.categories[j])

C22_Witness ==
    /\ llm.pc = "returned"
    /\ \E i, j \in DOMAIN llm.categories :
          /\ i < j
          /\ llm.categories[i].moneymoney_path = llm.path
          /\ llm.categories[i].uuid # llm.uuid
          /\ llm.categories[j].uuid = llm.uuid
          /\ llm.result = Some(llm.categories[i])

\* the categories of the searched list that contain the query
C24_Hits == {i \in DOMAIN search.categories : search.categories[i].hit}

\* C24: the search returns only categories that contain the query, each
\* once, at most MAX_SEARCH_RESULTS of them (all of them when there are no
\* more), in descending order of score, those of equal score in the order
\* of the category list, and none that ranks behind a category left out;
\* with no category or no match the result is empty
C24_SearchRanking ==
    search.pc = "returned" =>
        LET r == search.result
            c == search.categories
        IN  /\ \A k \in DOMAIN r : r[k].id \in C24_Hits /\ r[k] = c[r[k].id]
            /\ \A k, l \in DOMAIN r : k # l => r[k].id # r[l].id
            /\ Len(r) <= MAX_SEARCH_RESULTS
            /\ Len(r) = IF Cardinality(C24_Hits) < MAX_SEARCH_RESULTS
                        THEN Cardinality(C24_Hits) ELSE MAX_SEARCH_RESULTS
            /\ \A k \in 1 .. Len(r) - 1 :
                  \/ r[k].score > r[k + 1].score
                  \/ r[k].score = r[k + 1].score /\ r[k].id < r[k + 1].id
            /\ \A i \in C24_Hits :
                  (\A k \in DOMAIN r : r[k].id # i) =>
                      \A k \in DOMAIN r :
                          \/ r[k].score > c[i].score
                          \/ r[k].score = c[i].score /\ r[k].id < i
            /\ C24_Hits = {} => r = <<>>

C24_Witness ==
    /\ search.pc = "returned"
    /\ Cardinality(C24_Hits) > MAX_SEARCH_RESULTS
    /\ Cardinality(C24_Hits) < Len(search.categories)
    /\ Len(search.result) = MAX_SEARCH_RESULTS
    /\ search.result[1].score = search.result[2].score
    /\ search.result[1].id > 1
    /\ \E i \in C24_Hits :
          /\ i < search.result[1].id
          /\ search.categories[i].score < search.result[1].score

\* C23: a line typed at "Search: " that is shorter than SEARCH_MIN_CHARS
\* (and so is not the word back) never reaches _find_matching_categories:
\* the minimum-length message is printed, no result list is shown, and the
\* search prompt is shown again for the same transaction
C23_MinLengthGate ==
    (/\ keylog.line.query.kind = "query"
     /\ keylog.line.query.len < SEARCH_MIN_CHARS)
        => /\ ~keylog.line.find
           /\ keylog.line.message = "min_chars"
           /\ pc = "search"
           /\ matches = <<>>

C23_Witness ==
    /\ pc = "search"
    /\ keylog.line.query.kind = "query"
    /\ keylog.line.query.len = SEARCH_MIN_CHARS - 1
    /\ keylog.line.query.hits > 0
    /\ keylog.line.message = "min_chars"
    /\ ~keylog.line.find

\* the ways _propose_rule_generation returns
C30_RuleEnds ==
    {"declined", "no_rule", "raised", "copied", "copy_failed",
     "rule_declined"}

\* C30: however the rule generation that follows a successful
\* categorization of a cached review ends (offer declined, no rule
\* generated, exception raised, rule copied, copy failed, rule declined),
\* the transaction is counted as categorized, its cache entry is removed
\* from the cache and the file, nothing exits, and the run goes on with
\* the next transaction or, after the last one, to the summary
C30_RuleFlowNonFatal ==
    [][ ( /\ pc \in {"rule_offer", "rule_proposal"}
          /\ pc' \notin {"rule_offer", "rule_proposal"} )
        => LET t == transactions[idx] IN
           /\ keylog'.rule \in C30_RuleEnds
           /\ outcome'[t] = "categorized"
           /\ stats'.categorized = stats.categorized + 1
           /\ stats'.errors = stats.errors
           /\ ~CachedKey(cache', t)
           /\ Key(TxId(t)) \notin DOMAIN file'.data
           /\ exitCode' = exitCode
           /\ IF idx < Len(transactions)
              THEN pc' = "loop" /\ idx' = idx + 1
              ELSE pc' = "done" /\ summary' ]_vars

C30_Witness ==
    /\ keylog.rule = "copy_failed"
    /\ pc = "loop"
    /\ idx > 1
    /\ outcome[transactions[idx - 1]] = "categorized"
    /\ ~CachedKey(cache, transactions[idx - 1])
    /\ stats.categorized >= 1

\* C31: a run that gets past its startup (connection, categories, a
\* non-empty first fetch) calls exactly one mode routine: the pre-run
\* routine when pre_run_only is set, otherwise the apply-only routine when
\* apply_only is set, otherwise the combined routine, unless combined_mode
\* was passed as False, which alone selects the single-pass loop; a run
\* that returns earlier calls none.  What the run then does belongs to
\* that routine only: the pre-processing loop to pre-run and combined, no
\* suggestion request in apply-only, no prompt in pre-run.
C31_OneModeRoutine ==
    /\ startup.routine # "none" =>
         /\ startup.routine =
               IF args.pre_run_only THEN "prerun"
               ELSE IF args.apply_only THEN "apply"
               ELSE IF args.combined_mode # "False" THEN "combined"
               ELSE "legacy"
         /\ startup.routine = "legacy" => args.combined_mode = "False"
         /\ (~args.pre_run_only /\ ~args.apply_only
                /\ args.combined_mode = "None") => startup.routine = "combined"
         /\ pc = "done" => summary
    /\ (pc # "idle" /\ startup.routine = "none") =>
         /\ pc = "done" /\ ~summary
         /\ llmCalls = {} /\ prompts = {} /\ stats = ZeroStats
    /\ pc = "phase1" => startup.routine \in {"prerun", "combined"}
    /\ llmCalls # {} => startup.routine \in {"prerun", "combined", "legacy"}
    /\ startup.routine = "prerun" =>
         /\ prompts = {}
         /\ pc \in {"phase1", "done"}
    /\ (startup.routine = "legacy" /\ writable) => cache = cachePrev

C31_Witness ==
    /\ args.pre_run_only
    /\ args.apply_only
    /\ args.combined_mode = "True"
    /\ startup.routine = "prerun"
    /\ pc = "done"
    /\ summary
    /\ llmCalls # {}

C33_SourceFilter ==
    (/\ money.op = "fetch"
     /\ money.pc = "returned"
     /\ money.plist.format \in {"dict", "list"})
        => LET r == money.result
               e == money.plist.transactions
               nocat(tx) == tx.category \in {"missing", "empty", "blank"}
               booked(tx) ==
                   CASE tx.booked = "False" -> FALSE
                     [] tx.booked = "True" -> TRUE
                     [] tx.booked = "missing" -> tx.bookingDate
                     [] OTHER -> TRUE
           IN  /\ \A k \in DOMAIN r : r[k].id \in DOMAIN e /\ r[k] = e[r[k].id]
               /\ \A k \in 1 .. Len(r) - 1 : r[k].id < r[k + 1].id
               /\ \A i \in DOMAIN e :
                     e[i].booked # "other" =>
                        ((\E k \in DOMAIN r : r[k].id = i)
                            <=> /\ nocat(e[i])
                                /\ money.exclude_pending => booked(e[i]))

C33_Witness ==
    /\ money.op = "fetch"
    /\ money.pc = "returned"
    /\ money.exclude_pending
    /\ Len(money.plist.transactions) = 2
    /\ money.plist.transactions[1].category = "blank"
    /\ money.plist.transactions[1].booked = "False"
    /\ money.plist.transactions[1].bookingDate
    /\ money.plist.transactions[2].category = "missing"
    /\ money.plist.transactions[2].booked = "missing"
    /\ money.plist.transactions[2].bookingDate
    /\ Len(money.result) = 1
    /\ money.result[1].id = 2

\* C34: whichever search is active, what it hands back is
\* {action: 'categorize'} with a category of the active set or
\* {action: 'back'}: the fzf search returns one of the two for every exit
\* status of fzf; a step of the line-based search either stays inside the
\* search, or leaves it by an exception that hands back nothing and has the
\* prompt ask again, or hands back 'back', or hands back a category of the
\* list shown; 'b' at a result list goes to the search prompt; no step of a
\* search is the None that the coordinator takes for quit
C34_SearchContract ==
    [][LET t == transactions[idx]
           inside == /\ pc' \in {"search", "results"}
                     /\ lastChoice' = lastChoice
           escaped == /\ pc' = "prompt"
                      /\ lastChoice' = lastChoice
           back == /\ pc' = "prompt"
                   /\ lastChoice' = "back"
           picked == /\ pc = "results"
                     /\ lastChoice' = "categorize"
                     /\ \/ category' = category
                        \/ \E i \in DOMAIN matches :
                              category' = [category EXCEPT ![t] = matches[i]]
       IN  /\ (pc = "prompt" /\ ~test_mode /\ fzf_available)
                 => \A choice \in get_user_choice(test_mode, "s", suggestions) :
                       \/ choice.action = "back"
                       \/ /\ choice.action = "categorize"
                          /\ choice.category \in Categories
           /\ pc \in {"search", "results"}
                 => /\ inside \/ escaped \/ back \/ picked
                    /\ lastChoice' # "quit"
                    /\ exitCode' = exitCode
           /\ (pc = "results" /\ keylog'.results = "b")
                 => /\ pc' = "search"
                    /\ lastChoice' = lastChoice]_vars

C34_Witness ==
    /\ fzf_available
    /\ pc = "search"
    /\ keylog.review = "s"
    /\ keylog.results = "b"
    /\ keylog.line.query.kind = "none"
    /\ lastChoice = "back"

\* the control locations at which get_user_choice has not returned a
\* decision for the transaction under review
C35_InReview == pc \in {"prompt", "search", "results"}

\* C35: a step in which get_user_choice yields 'back' (the word back or
\* Ctrl-C at the search line, 'r' at a result list, fzf ending without a
\* selection) is followed by the prompt for the same transaction with the
\* same suggestions, and leaves cache, cache file, tallies, outcomes and
\* categories as they were (so does every later step of the same review
\* that yields nothing else); the transaction under review is left only
\* by a step that accepts a category, skips or quits
C35_BackKeepsReview ==
    [][C35_InReview
          => /\ lastChoice' = "back"
                  => /\ \/ pc' = "prompt"
                        \/ lastChoice = "back" /\ C35_InReview'
                     /\ idx' = idx
                     /\ transactions' = transactions
                     /\ suggestions' = suggestions
                     /\ cache' = cache
                     /\ file' = file
                     /\ stats' = stats
                     /\ outcome' = outcome
                     /\ category' = category
                     /\ applied' = applied
             /\ (pc = "results" /\ keylog'.results = "r")
                  => lastChoice' = "back" /\ pc' = "prompt"
             /\ (pc = "search" /\ keylog'.line.query.kind
                                     \in {"back", "interrupt"})
                  => lastChoice' = "back" /\ pc' = "prompt"
             /\ ~(C35_InReview' /\ idx' = idx)
                  => lastChoice' \in {"categorize", "skip", "quit"}]_vars

C35_Witness ==
    /\ mode = "legacy"
    /\ pc = "prompt"
    /\ lastChoice = "back"
    /\ keylog.results = "r"
    /\ stats.processed = 2
    /\ stats.skipped = 1
    /\ outcome[transactions[idx]] = "none"

\* the step in which _propose_rule_generation calls
\* generate_categorization_rule: the offer ends with a rule to propose,
\* with no rule, or with an exception of the generation
C36_Generates ==
    /\ pc = "rule_offer"
    /\ \/ pc' = "rule_proposal"
       \/ keylog'.rule \in {"no_rule", "raised"}

\* C36: generate_categorization_rule is called only in a cached review,
\* after _apply_categorization succeeded for the category the user chose
\* and after the user accepted the offer: the offer is made only outside
\* test mode, in a mode that reviews from the cache, for a transaction
\* whose review chose 'categorize' and whose apply succeeded; a declined
\* offer ends the rule flow without a call
C36_RuleAfterApply ==
    [][LET t == transactions[idx]
       IN  /\ pc \in {"rule_offer", "rule_proposal"}
                 => /\ ~test_mode
                    /\ mode \in {"apply", "combined"}
                    /\ lastChoice = "categorize"
                    /\ applied[t] \in {"ok", "dry"}
                    /\ outcome[t] = "none"
           /\ C36_Generates
                 => keylog'.offer = "accepted"
           /\ (pc = "rule_offer" /\ keylog'.offer = "declined")
                 => /\ keylog'.rule = "declined"
                    /\ pc' # "rule_proposal"
           /\ (pc' = "rule_proposal" /\ pc # "rule_proposal")
                 => pc = "rule_offer"
           /\ (pc' = "rule_offer")
                 => /\ pc \in {"prompt", "results"}
                    /\ lastChoice' = "categorize"
                    /\ applied'[t] \in {"ok", "dry"}]_vars

C36_Witness ==
    /\ pc = "rule_proposal"
    /\ keylog.offer = "accepted"
    /\ keylog.results = "1"
    /\ lastChoice = "categorize"
    /\ applied[transactions[idx]] = "ok"
    /\ \E t \in Tx : applied[t] = "failed" /\ outcome[t] = "applyfail"

\* the suggestion looked up identifies no category of the list: its uuid
\* is no category's, its path is no category's full_name or
\* moneymoney_path and is not a non-empty part of one, letter case aside
C37_IdentifiesNone ==
    \A i \in DOMAIN llm.categories :
        /\ llm.categories[i].uuid # llm.uuid
        /\ llm.categories[i].full_name # llm.path
        /\ llm.categories[i].moneymoney_path # llm.path
        /\ ~(/\ llm.path # <<>>
             /\ \/ Contains(lower(llm.path), lower(llm.categories[i].full_name))
                \/ Contains(lower(llm.path),
                            lower(llm.categories[i].moneymoney_path)))

\* the response that carries the suggestion looked up and nothing else
C37_Response ==
    [kind |-> "json",
     suggestions |-> <<[category_path |-> llm.path, uuid |-> llm.uuid,
                        confidence |-> 1]>>,
     rule |-> 0, exception |-> "none"]

\* C37 as stated: a suggestion that identifies no category, its path
\* possibly empty or missing, is looked up as None and gets no entry from
\* _parse_suggestions
C37_DroppedWhenUnidentified ==
    (llm.pc = "returned" /\ llm.op = "lookup" /\ C37_IdentifiesNone)
        => /\ llm.result = None
           /\ _parse_suggestions(C37_Response, llm.categories) = <<>>

\* C37 amended: a suggestion that identifies no category and whose path
\* is not empty is looked up as None and gets no entry; one whose path is
\* empty or missing and whose uuid is no category's is looked up as the
\* first category of the list and gets an entry for that category
C37_DroppedWhenPathNamesNone ==
    (llm.pc = "returned" /\ llm.op = "lookup" /\ C37_IdentifiesNone)
        => IF llm.path # <<>>
           THEN /\ llm.result = None
                /\ _parse_suggestions(C37_Response, llm.categories) = <<>>
           ELSE /\ llm.result = Some(llm.categories[1])
                /\ _parse_suggestions(C37_Response, llm.categories)
                      = <<[category |-> llm.categories[1], confidence |-> 1]>>

C37_Witness ==
    /\ llm.pc = "returned"
    /\ llm.op = "lookup"
    /\ llm.path = <<NumParseCats + 1>>
    /\ llm.uuid = NumParseCats + 1
    /\ llm.categories[1].uuid = 2
    /\ llm.result = None

\* the transactions whose review iteration ended with one of the results
C38_Ended(results) == Cardinality({t \in Tx : outcome[t] \in results})

\* between iterations and at the end of a run that was not cut short by
\* sys.exit the tallies balance, and every transaction whose iteration
\* ended is in exactly one of them; inside an iteration processed is one
\* ahead
C38_Balanced ==
    LET sum == stats.categorized + stats.skipped + stats.errors IN
    /\ pc \notin DialoguePcs \cup {"exited"} => stats.processed = sum
    /\ pc \in DialoguePcs => stats.processed = sum + 1
    /\ stats.categorized = C38_Ended({"categorized"})
    /\ stats.errors = C38_Ended({"error"})
    /\ sum = Cardinality({t \in Tx : outcome[t] # "none"})

\* C38: after every completed iteration of a review loop processed =
\* categorized + skipped + errors, every reviewed transaction is counted in
\* exactly one of the three, and categorized grows, by one, only in a step
\* in which the apply for the transaction under review reported success
C38_TallyInvariant ==
    [][/\ C38_Balanced'
       /\ stats'.categorized # stats.categorized
             => /\ stats'.categorized = stats.categorized + 1
                /\ stats'.skipped = stats.skipped
                /\ stats'.errors = stats.errors
                /\ applied'[transactions[idx]] \in {"ok", "dry"}
                /\ outcome[transactions[idx]] = "none"
       /\ stats'.skipped # stats.skipped
             => /\ stats'.skipped = stats.skipped + 1
                /\ stats'.errors = stats.errors
       /\ stats'.errors # stats.errors
             => stats'.errors = stats.errors + 1]_vars

C38_Witness ==
    /\ pc = "done"
    /\ stats = [processed |-> 3, categorized |-> 1, skipped |-> 1,
                errors |-> 1]
    /\ \E t \in Tx : outcome[t] = "applyfail"
    /\ \E t \in Tx : applied[t] = "ok"

\* the fetched transactions whose id is missing or falsy
C39_NoId == {t \in Tx : TxId(t) = 0}

\* C39: a transaction whose id is missing or falsy is not sent to the
\* suggestion source by the pre-processing loop (pre-run-only and combined
\* runs), never gets a cache entry (an entry the cache file already had
\* under its key stays as it is), is never passed to
\* set_transaction_category, and in a cached review is counted as skipped
\* in the step that begins its iteration, without a prompt and without a
\* change of cache or cache file
C39_FalsyIdUntouched ==
    [][\A t \in C39_NoId :
          LET k == Key(TxId(t)) IN
          /\ mode \in {"prerun", "combined"} => t \notin llmCalls'
          /\ k \in DOMAIN cache'
                => /\ k \in DOMAIN cache
                   /\ cache'[k] = cache[k]
          /\ applied'[t] = "none"
          /\ category'[t] = category[t]
          /\ mode \in {"apply", "combined"}
                => /\ t \notin prompts'
                   /\ outcome'[t] \in {"none", "noid"}
                   /\ outcome'[t] # outcome[t]
                         => /\ pc = "loop"
                            /\ transactions[idx] = t
                            /\ pc' \notin DialoguePcs
                            /\ stats'.processed = stats.processed + 1
                            /\ stats'.skipped = stats.skipped + 1
                            /\ stats'.categorized = stats.categorized
                            /\ stats'.errors = stats.errors
                            /\ cache' = cache
                            /\ file' = file]_vars

C39_Witness ==
    /\ mode = "combined"
    /\ ~test_mode
    /\ pc = "done"
    /\ \E t \in C39_NoId :
          /\ outcome[t] = "noid"
          /\ Key(TxId(t)) \in DOMAIN cache
          /\ t \notin llmCalls
    /\ llmCalls # {}
    /\ stats.processed = NumTx
    /\ stats.skipped = 1
    /\ stats.categorized = NumTx - 1

\* C40: at a numbered list every item shown has a character that selects
\* exactly it: the suggestions of the review prompt, and the categories
\* listed by _display_search_results, up to MAX_SEARCH_RESULTS = 10
C40_EveryListedSelectable ==
    search.pc \in {"listed", "read"}
        => \A i \in DOMAIN search.listed :
              \E k \in Characters :
                 IF search.prompt = "review"
                 THEN get_user_choice(FALSE, k, Some(search.listed))
                         = {Choice("categorize", search.listed[i])}
                 ELSE _display_search_results(k, search.listed)
                         = {Choice("categorize", search.listed[i])}

====
